---- MODULE Spec2Model ----
(***************************************************************************)
(* A model of the IFRS9 impairment engine (package impairment):            *)
(*   - staging_map                      (data_validation.py, ecl_module.py)*)
(*   - the request handlers of views.py that store PD, EAD/LGD and ECL     *)
(*     results (upload_historical_loan_data, upload_current_loan_book,     *)
(*     calculate_ECL) with ECL_Calc / calculate_single_loan_ecl            *)
(*   - base_matrices, convert_to_monthly_transition_matrix,                *)
(*     absorbing_state, extract_pds, cure_rate      (matrix_functions.py)  *)
(*                                                                         *)
(* Numbers.  A probability is a fraction num/den of integers; a matrix is  *)
(* a record [n |-> rows of numerators, d |-> common denominator].  The     *)
(* strings produced by f"{x:.8f}" are modelled by the integer number of    *)
(* 1e-8 units they denote (round-half-even of the exact value).            *)
(***************************************************************************)
EXTENDS Integers, Sequences, FiniteSets, TLC

VARIABLES
    \* ---- staging_map applied to one input
    dpd,            \* days past due handed to staging_map
    matrix_size,    \* matrix size handed to staging_map
    stage,          \* result of data_validation.staging_map, "none" before the call
    ead_stage,      \* result of ExposureAtDefault.staging_map, "none" before the call
    \* ---- the database as seen by the views, per project
    pd_result,      \* PDCalculationResult row of the project, NoValue if there is none
    ead_lgd,        \* EADLGDCalculationResult rows of the project, in order of creation
    ecl_result,     \* ECLCalculationResult row of the project, NoValue if there is none
    response,       \* the view that served the last request and how it ended
    \* ---- convert_to_monthly_transition_matrix applied to one input
    cv_matrix,      \* the matrix argument
    cv_period,      \* the period argument
    cv_result,      \* the returned matrix, "none" before the call
    \* ---- absorbing_state / extract_pds / cure_rate applied to one data set
    mx_df,          \* output of base_matrices: the frame of transition matrices
    mx_size,        \* matrix_size argument of absorbing_state and extract_pds
    mx_cure_in,     \* aggregated stage_3 balances per segment: <<cured, recovered, stage_3>>
    mx_period,      \* observation period in months
    mx_mult_len,    \* mult_len argument
    mx_monthly,     \* output of absorbing_state, "none" before the call
    mx_pds,         \* output of extract_pds, "none" before the call
    mx_cure,        \* output of cure_rate, "none" before the call
    \* ---- data_prep / base_matrices / the sums of cure_rate applied to one file
    pp_data,        \* the cleaned observations of the file
    pp_valuation,   \* valuation_date argument, as a month number
    pp_prep,        \* output of data_prep, "none" before the call
    pp_matrices,    \* output of base_matrices, "none" before the call
    pp_cure,        \* the cure/recovery matrices of cure_rate, "none" before the call
    \* ---- ExposureAtDefault and LossGivenDefault built for one loan
    ln_loan,        \* the line of the loan book
    ln_ead,         \* the ExposureAtDefault object, "none" before the call
    ln_amort,       \* its amortization schedule
    ln_curves,      \* cure curve, recovery curve and collateral handed to LossGivenDefault
    ln_lgd,         \* the LossGivenDefault object with its lgd_schedule
    ln_pds,         \* the marginal PD frames handed to calculate_single_loan_ecl
    ln_ecl,         \* the ECL frame of the loan
    \* ---- one loan book going through upload_current_loan_book and calculate_ECL
    bk_loans,       \* the loan book after remove_loan_duplicates, one line per account
    bk_shared,      \* cures, recoveries and collateral parameters read by every loan
    bk_ead,         \* per loan: the ExposureAtDefault object, "none" before its creation
    bk_lgd,         \* per loan: the LossGivenDefault object, "none" before its creation
    bk_phase,       \* the step of the two views that is running
    bk_records,     \* the EADLGDCalculationResult rows that were saved
    bk_ecl          \* the outcome of calculate_ECL, "none" before the call

stagingVars  == <<dpd, matrix_size, stage, ead_stage>>
pipelineVars == <<pd_result, ead_lgd, ecl_result, response>>
convertVars  == <<cv_matrix, cv_period, cv_result>>
projectVars  == <<mx_df, mx_size, mx_cure_in, mx_period, mx_mult_len, mx_monthly, mx_pds, mx_cure>>
prepVars     == <<pp_data, pp_valuation, pp_prep, pp_matrices, pp_cure>>
loanVars     == <<ln_loan, ln_ead, ln_amort, ln_curves, ln_lgd, ln_pds, ln_ecl>>
bookVars     == <<bk_loans, bk_shared, bk_ead, bk_lgd, bk_phase, bk_records, bk_ecl>>
vars == <<stagingVars, pipelineVars, convertVars, projectVars, prepVars, loanVars, bookVars>>

None == "none"                 \* no label yet
NoValue == [kind |-> "none"]   \* no object: before a call, or a row that does not exist
Raised(e) == [kind |-> "error", error |-> e]   \* the call ended with exception e
NoResponse == [view |-> "none", outcome |-> "none"]   \* no request served yet

(***************************************************************************)
(* Bounds of the model                                                     *)
(***************************************************************************)
MaxDpd    == 120    \* days past due range 0..MaxDpd (and a few negative values)
MaxNegDpd == 2      \* negative days past due -MaxNegDpd..-1 (parenthesised input)
MaxPeriod == 3      \* periods 1..MaxPeriod handed to the conversion
RootDen   == 4      \* monthly roots have entries k/d with d <= RootDen
GridDen   == 2      \* directly enumerated matrices have entries k/GridDen
ProjDen   == 3      \* projected base matrices have entries k/d with d <= ProjDen
MaxMultLen == 4     \* mult_len arguments 0..MaxMultLen
MaxWeight == 2      \* aggregated cure / recovery / stage_3 balances 0..MaxWeight

PdHorizon == 12     \* range(1, 13): the months of the first origin row

-----------------------------------------------------------------------------
(***************************************************************************)
(* Generic helpers                                                         *)
(***************************************************************************)
\* A parameter of a RECURSIVE operator is evaluated again at every use; the
\* recursive operators below are therefore reached through an operator that
\* holds the value of the argument (or, in GcdNat, through bound names).
Abs(x) == IF x < 0 THEN 0 - x ELSE x

\* A function expression [i \in S |-> e] is kept unevaluated and e is computed
\* again at every application; comparing the function evaluates it once.
Eval(f) == IF f = f THEN f ELSE f

\* F applied to the value of x, x being evaluated once
With(x, F(_)) == IF x = x THEN F(x) ELSE F(x)

RECURSIVE SumSeqR(_)
SumSeqR(s) == IF s = <<>> THEN 0 ELSE Head(s) + SumSeqR(Tail(s))

SumSeq(s) == SumSeqR(s)

RECURSIVE GcdNat(_, _)
GcdNat(a, b) ==
    IF b = 0 THEN a ELSE CHOOSE g \in {GcdNat(y, x % y) : x \in {a}, y \in {b}} : TRUE

Gcd(a, b) == GcdNat(Abs(a), Abs(b))

Lcm(a, b) == (a \div Gcd(a, b)) * b

RECURSIVE GcdSeqR(_)
GcdSeqR(s) == IF s = <<>> THEN 0 ELSE Gcd(Head(s), GcdSeqR(Tail(s)))

GcdSeq(s) == GcdSeqR(s)

RECURSIVE LcmSeqR(_)
LcmSeqR(s) == IF s = <<>> THEN 1 ELSE Lcm(Head(s), LcmSeqR(Tail(s)))

LcmSeq(s) == LcmSeqR(s)

-----------------------------------------------------------------------------
(***************************************************************************)
(* Matrices of fractions (numpy arrays of float64).                        *)
(*   M.n[i][j] / M.d  is the entry of row i, column j (1-based here,       *)
(*   0-based in the code); M.nr is the set of positions <<i,j>> that hold  *)
(*   no real number: NaN, or a complex number with an imaginary part.      *)
(* Every matrix is kept in lowest terms, so two matrices are equal as      *)
(* values exactly when their records are equal.                            *)
(***************************************************************************)
NRows(M) == Len(M.n)
NCols(M) == Len(M.n[1])

\* lowest terms: divide numerators and denominator by their common divisor
Reduce(M) ==
    LET g == Gcd(M.d, GcdSeq([i \in 1..NRows(M) |-> GcdSeq(M.n[i])]))
    IN  Eval([n  |-> [i \in 1..NRows(M) |-> [j \in 1..NCols(M) |-> M.n[i][j] \div g]],
              d  |-> M.d \div g,
              nr |-> M.nr])

Mat(rows, den) == Reduce([n |-> rows, d |-> den, nr |-> {}])

RowSum(M, i) == SumSeq(M.n[i])

IsSquare(M) == NRows(M) = NCols(M)

\* a valid stochastic matrix: real entries >= 0, every row sums to 1
IsStochastic(M) ==
    /\ M.nr = {}
    /\ \A i \in 1..NRows(M) :
          /\ \A j \in 1..NCols(M) : M.n[i][j] >= 0
          /\ RowSum(M, i) = M.d

\* row i is the unit vector of column k
IsUnitRow(M, i, k) ==
    /\ \A j \in 1..NCols(M) : <<i, j>> \notin M.nr
    /\ \A j \in 1..NCols(M) : M.n[i][j] = (IF j = k THEN M.d ELSE 0)

\* numpy matrix product A @ B; NaN spreads to every entry whose sum reads one
MatMul(A, B) ==
    Reduce([n  |-> [i \in 1..NRows(A) |-> [j \in 1..NCols(B) |->
                       SumSeq([k \in 1..NCols(A) |-> A.n[i][k] * B.n[k][j]])]],
            d  |-> A.d * B.d,
            nr |-> {<<i, j>> \in (1..NRows(A)) \X (1..NCols(B)) :
                       \E k \in 1..NCols(A) : <<i, k>> \in A.nr \/ <<k, j>> \in B.nr}])

\* np.linalg.matrix_power(M, i) for 1 <= i < 32: binary decomposition, the
\* squares M, M^2, M^4, ... multiplied into the result for every set bit of i
MulInto(R, Z) == IF R = NoValue THEN Z ELSE MatMul(R, Z)

matrix_power(M, i) ==
    LET z2  == MatMul(M, M)
        z4  == MatMul(z2, z2)
        z8  == MatMul(z4, z4)
        z16 == MatMul(z8, z8)
        r1  == IF i % 2 = 1 THEN M ELSE NoValue
        r2  == IF (i \div 2) % 2 = 1 THEN MulInto(r1, z2) ELSE r1
        r4  == IF (i \div 4) % 2 = 1 THEN MulInto(r2, z4) ELSE r2
        r8  == IF (i \div 8) % 2 = 1 THEN MulInto(r4, z8) ELSE r4
    IN  IF (i \div 16) % 2 = 1 THEN MulInto(r8, z16) ELSE r8

-----------------------------------------------------------------------------
(***************************************************************************)
(* scipy.linalg.logm / expm as used by the conversion (lines 60-62):       *)
(* expm(logm(M) / period) is the principal period-th root of M.            *)
(*   - If M = R^period for a real R with positive eigenvalues, the result  *)
(*     is R.  The model knows the triangular R with positive diagonal and  *)
(*     rows summing to 1 whose entries are k/d, d <= RootDen (entries may  *)
(*     be negative: the root of a stochastic matrix need not be one).      *)
(*   - If M has a negative eigenvalue, logm(M) is complex and so is the    *)
(*     result, except in the rows of M that are unit rows e_i (a root is a *)
(*     polynomial in M, and e_i M = e_i gives e_i R = e_i).                *)
(*   - Other matrices (singular ones, roots outside the grid) are not      *)
(*     representable here: Convertible excludes them from the inputs.      *)
(***************************************************************************)
RootNums(d) == (0 - d)..(2 * d)

UpperRoots(d) ==
    {<< <<a, b, d - a - b>>, <<0, e, d - e>>, <<0, 0, d>> >> :
        <<a, b, e>> \in {t \in (1..d) \X RootNums(d) \X (1..d) : d - t[1] - t[2] \in RootNums(d)}}

LowerRoots(d) ==
    {<< <<d, 0, 0>>, <<d - c, c, 0>>, <<x, d - z - x, z>> >> :
        <<c, x, z>> \in {t \in (1..d) \X RootNums(d) \X (1..d) : d - t[3] - t[2] \in RootNums(d)}}

Roots == UNION {{Mat(r, d) : r \in UpperRoots(d) \cup LowerRoots(d)} : d \in 1..RootDen}

RootTable ==
    {[root |-> R, period |-> p, power |-> matrix_power(R, p)] :
        <<R, p>> \in Roots \X (2..MaxPeriod)}

HasRealRoot(M, p) == \E t \in RootTable : t.period = p /\ t.power = M

\* a 3x3 matrix with an absorbing last row whose leading 2x2 block has a negative
\* determinant: the eigenvalues are real and one of them is negative
NegEig(M) ==
    /\ NRows(M) = 3 /\ NCols(M) = 3 /\ M.nr = {}
    /\ IsUnitRow(M, 3, 3)
    /\ M.n[1][1] * M.n[2][2] - M.n[1][2] * M.n[2][1] < 0

ComplexRoot(M) ==
    [n  |-> [i \in 1..3 |-> [j \in 1..3 |-> IF IsUnitRow(M, i, i) /\ i = j THEN 1 ELSE 0]],
     d  |-> 1,
     nr |-> {<<i, j>> \in (1..3) \X (1..3) : ~ IsUnitRow(M, i, i)}]

Convertible(M, p) == p = 1 \/ HasRealRoot(M, p) \/ NegEig(M)

\* expm(logm(M) / p), for Convertible(M, p) and p > 1
LogExp(M, p) ==
    IF HasRealRoot(M, p)
    THEN (CHOOSE t \in RootTable : t.period = p /\ t.power = M).root
    ELSE ComplexRoot(M)

(***************************************************************************)
(* convert_to_monthly_transition_matrix: matrix_functions.py 45-68         *)
(***************************************************************************)
\* lines 65-66: monthly_matrix[monthly_matrix < 0] = 0, then divide every row by
\* its sum; a row whose sum is 0 becomes 0/0 = NaN.  An entry that is no real
\* number stays what it is.
ClampRenormalize(X) ==
    LET c(i, j) == IF X.n[i][j] < 0 THEN 0 ELSE X.n[i][j]
        sum(i)  == SumSeq([j \in 1..NCols(X) |-> c(i, j)])
        bad(i)  == sum(i) = 0 \/ \E j \in 1..NCols(X) : <<i, j>> \in X.nr
        L       == LcmSeq([i \in 1..NRows(X) |-> IF bad(i) THEN 1 ELSE sum(i)])
    IN  Reduce([n  |-> [i \in 1..NRows(X) |-> [j \in 1..NCols(X) |->
                          IF bad(i) THEN 0 ELSE c(i, j) * (L \div sum(i))]],
                d  |-> L,
                nr |-> {<<i, j>> \in (1..NRows(X)) \X (1..NCols(X)) : bad(i)}])

convert_always_normalizes(matrix, period) ==
    ClampRenormalize(IF period = 1 THEN matrix ELSE LogExp(matrix, period))

convert_to_monthly_transition_matrix(matrix, period) ==
    IF period = 1
    THEN matrix
    ELSE ClampRenormalize(LogExp(matrix, period))

-----------------------------------------------------------------------------
(***************************************************************************)
(* Numbers read out of a matrix, and the strings written by f"{x:.8f}"     *)
(***************************************************************************)
NaN == [kind |-> "nan"]

\* the fraction num/den in lowest terms, den > 0
Rat(num, den) ==
    LET g == Gcd(num, den) IN [kind |-> "num", n |-> num \div g, d |-> den \div g]

IsNum(x) == x.kind = "num"

Entry(M, i, j) == IF <<i, j>> \in M.nr THEN NaN ELSE Rat(M.n[i][j], M.d)

RatSub(a, b) ==
    IF ~ IsNum(a) \/ ~ IsNum(b) THEN NaN
    ELSE LET L == Lcm(a.d, b.d)
         IN  Rat(a.n * (L \div a.d) - b.n * (L \div b.d), L)

RatAdd(a, b) ==
    IF ~ IsNum(a) \/ ~ IsNum(b) THEN NaN
    ELSE LET L == Lcm(a.d, b.d)
         IN  Rat(a.n * (L \div a.d) + b.n * (L \div b.d), L)

RatLeq(a, b) ==
    LET L == Lcm(a.d, b.d) IN a.n * (L \div a.d) <= b.n * (L \div b.d)

\* one more decimal digit of a long division: from <<q, r>> with 0 <= r < den
\* to <<10 q + floor(10 r / den), 10 r mod den>>; the multiplication by 10 is
\* done by 5 and then by 2 so that no product leaves 32 bits
Digit(qr, den) ==
    LET q5 == qr[1] * 5 + ((qr[2] * 5) \div den)
        r5 == (qr[2] * 5) % den
    IN  <<q5 * 2 + ((r5 * 2) \div den), (r5 * 2) % den>>

\* eight digits after the point
ScaleDiv(q0, r0, den) ==
    Digit(Digit(Digit(Digit(Digit(Digit(Digit(Digit(<<q0, r0>>,
        den), den), den), den), den), den), den), den)

\* f"{x:.8f}": the decimal string with 8 digits after the point nearest to x,
\* ties to the even digit; units is that string read as a count of 1e-8
Fmt8(x) ==
    IF ~ IsNum(x) THEN [kind |-> "nan"]
    ELSE LET a  == Abs(x.n)
             s  == ScaleDiv(a \div x.d, a % x.d, x.d)
             up == 2 * s[2] > x.d \/ (2 * s[2] = x.d /\ s[1] % 2 = 1)
             u  == IF up THEN s[1] + 1 ELSE s[1]
         IN  [kind |-> "f8", units |-> IF x.n < 0 THEN 0 - u ELSE u]

-----------------------------------------------------------------------------
(***************************************************************************)
(* Frames of transition matrices (the DataFrame built by base_matrices):   *)
(*   cols  the next-stage labels, in column order                          *)
(*   rows  the current-stage labels of every segment, in row order         *)
(*   m     segment -> matrix, rows and columns in that order               *)
(* pd.crosstab sorts both label sets.                                      *)
(***************************************************************************)
StageOrder == <<"stage_1", "stage_2", "stage_2a", "stage_2b", "stage_3">>

SortLabels(S) == SelectSeq(StageOrder, LAMBDA l : l \in S)

Labels(ms) ==
    IF ms = 3 THEN {"stage_1", "stage_2", "stage_3"}
    ELSE {"stage_1", "stage_2a", "stage_2b", "stage_3"}

Range(f) == {f[i] : i \in DOMAIN f}

IsFrame(x) == x # NoValue /\ x.kind = "frame"

IsRaised(x) == x.kind = "error"

Segments(df) == DOMAIN df.m

\* lines 86-92: matrices_df.loc[(segment, 'stage_3'), :] = (0, 0, 1) or (0, 0, 0, 1);
\* the row is replaced where it exists and appended where it does not
ForceAbsorbing(M, rows, ms) ==
    LET rows2 == IF "stage_3" \in Range(rows) THEN rows ELSE Append(rows, "stage_3")
    IN  Reduce([n  |-> [i \in 1..Len(rows2) |->
                          IF rows2[i] = "stage_3"
                          THEN [j \in 1..ms |-> IF j = ms THEN M.d ELSE 0]
                          ELSE M.n[i]],
                d  |-> M.d,
                nr |-> {q \in M.nr : rows2[q[1]] # "stage_3"}])

KeepEmpirical(M, rows, ms) ==
    IF "stage_3" \in Range(rows) THEN M ELSE ForceAbsorbing(M, rows, ms)

absorbing_state_keeps_row(matrices_df, ms, period) ==
    IF ms \notin {3, 4} THEN Raised("ValueError")
    ELSE IF Len(matrices_df.cols) # ms THEN Raised("ValueError")
    ELSE [kind |-> "frame",
          cols |-> matrices_df.cols,
          rows |-> IF "stage_3" \in Range(matrices_df.rows) THEN matrices_df.rows
                   ELSE Append(matrices_df.rows, "stage_3"),
          m    |-> [seg \in Segments(matrices_df) |->
                      convert_to_monthly_transition_matrix(
                          KeepEmpirical(matrices_df.m[seg], matrices_df.rows, ms), period)]]

\* absorbing_state: matrix_functions.py 70-107
absorbing_state(matrices_df, ms, period) ==
    IF ms \notin {3, 4} THEN Raised("ValueError")
    ELSE IF Len(matrices_df.cols) # ms THEN Raised("ValueError")
    ELSE [kind |-> "frame",
          cols |-> matrices_df.cols,
          rows |-> IF "stage_3" \in Range(matrices_df.rows) THEN matrices_df.rows
                   ELSE Append(matrices_df.rows, "stage_3"),
          m    |-> [seg \in Segments(matrices_df) |->
                      convert_to_monthly_transition_matrix(
                          ForceAbsorbing(matrices_df.m[seg], matrices_df.rows, ms), period)]]

(***************************************************************************)
(* extract_pds: matrix_functions.py 110-145                                *)
(***************************************************************************)
\* [stage, matrix_size - 1]: the last column (columns are counted from 1 here)
PenultimateIndex(ms) == ms - 1

DefaultIndex(ms) == ms

\* range(1, 13) for stage 0, range(1, mult_len) for the later stages
Horizon(stg, mult_len) ==
    IF stg = 0 THEN PdHorizon ELSE IF mult_len > 1 THEN mult_len - 1 ELSE 0

\* <<M^1, ..., M^n>>, n >= 1: Powers(M, n)[i] is np.linalg.matrix_power(M, i)
RECURSIVE Powers(_, _)
Powers(M, n) ==
    IF n <= 1 THEN <<M>>
    ELSE With(Powers(M, n - 1), LAMBDA P : Append(P, MatMul(P[n - 1], M)))

cumulative_pds_next_row(P, stg, ms, mult_len) ==
    Eval([i \in 1..Horizon(stg, mult_len) |-> Entry(P[i], stg + 2, DefaultIndex(ms))])

\* lines 133 and 135: [matrix_power(M, i)[stage, matrix_size - 1] for i in range(...)],
\* P being the powers of M
cumulative_pds(P, stg, ms, mult_len) ==
    Eval([i \in 1..Horizon(stg, mult_len) |-> Entry(P[i], stg + 1, DefaultIndex(ms))])

np_diff(c) == Eval([i \in 1..(Len(c) - 1) |-> RatSub(c[i + 1], c[i])])

\* line 137: np.diff(np.insert(c, 0, 0))
np_diff_insert0(c) ==
    Eval([i \in 1..Len(c) |-> RatSub(c[i], IF i = 1 THEN Rat(0, 1) ELSE c[i - 1])])

\* lines 142-143: applymap(lambda x: f"{x:.8f}")
Formatted(c) == Eval([i \in 1..Len(c) |-> Fmt8(c[i])])

MaxOf(a, b) == IF a >= b THEN a ELSE b

\* lines 128-140: the two curves of every origin stage of one segment
SegmentCurves(M, ms, mult_len) ==
    With(Powers(M, MaxOf(PdHorizon, mult_len - 1)), LAMBDA P :
      With([stg \in 0..(ms - 2) |-> cumulative_pds(P, stg, ms, mult_len)], LAMBDA cum :
        [cumulative |-> cum,
         marginal   |-> [stg \in 0..(ms - 2) |-> np_diff_insert0(cum[stg])]]))

extract_pds(matrices_df, ms, mult_len) ==
    IF ms \notin {3, 4} THEN Raised("ValueError")
    ELSE With([seg \in Segments(matrices_df) |->
                  SegmentCurves(matrices_df.m[seg], ms, mult_len)], LAMBDA sd :
           [kind        |-> "pds",
            stage_dicts |-> [stg \in 0..(ms - 2) |->
                               [cumulative_dict |-> [seg \in DOMAIN sd |-> sd[seg].cumulative[stg]],
                                marginal_dict   |-> [seg \in DOMAIN sd |-> sd[seg].marginal[stg]]]],
            marginal    |-> [stg \in 0..(ms - 2) |->
                               [seg \in DOMAIN sd |-> Formatted(sd[seg].marginal[stg])]],
            cumulative  |-> [stg \in 0..(ms - 2) |->
                               [seg \in DOMAIN sd |-> Formatted(sd[seg].cumulative[stg])]]])

(***************************************************************************)
(* cure_rate: matrix_functions.py 148-187.  The argument is, per segment,  *)
(* the three sums of lines 162-164 / 167-169: <<cured, recovered, stage_3>>*)
(***************************************************************************)
\* lines 158-171: identity with row 2 replaced, every row divided by its sum
cr_rr(w) ==
    LET s == w[1] + w[2] + w[3]
    IN  IF s = 0
        THEN [n  |-> << <<1, 0, 0>>, <<0, 1, 0>>, <<0, 0, 0>> >>, d |-> 1,
              nr |-> {<<3, 1>>, <<3, 2>>, <<3, 3>>}]
        ELSE Mat(<< <<s, 0, 0>>, <<0, s, 0>>, <<w[1], w[2], w[3]>> >>, s)

\* DataFrame.fillna(0)
fillna0(c) == Eval([i \in 1..Len(c) |-> IF IsNum(c[i]) THEN c[i] ELSE Rat(0, 1)])

\* lines 173-179 for one segment
SegmentCures(w, mult_len, period) ==
    With(convert_to_monthly_transition_matrix(cr_rr(w), period), LAMBDA monthly_cr_rr :
      With(Powers(monthly_cr_rr, MaxOf(1, mult_len - 1)), LAMBDA P :
        With([col \in 1..2 |-> Eval([i \in 1..Horizon(2, mult_len) |-> Entry(P[i], 3, col)])],
             LAMBDA cum :
          [monthly_cr_rr            |-> monthly_cr_rr,
           cumulative_cure_rate     |-> cum[1],
           cumulative_recovery_rate |-> cum[2],
           cure_rates               |-> np_diff_insert0(cum[1]),
           recovery_rates           |-> np_diff_insert0(cum[2])])))

cure_rate(cure_in, mult_len, period) ==
    With([seg \in DOMAIN cure_in |-> SegmentCures(cure_in[seg], mult_len, period)], LAMBDA sc :
      [kind        |-> "cures",
       segments    |-> sc,
       cure_df     |-> [seg \in DOMAIN sc |-> Formatted(fillna0(sc[seg].cure_rates))],
       recovery_df |-> [seg \in DOMAIN sc |-> Formatted(fillna0(sc[seg].recovery_rates))]])

-----------------------------------------------------------------------------
(***************************************************************************)
(* staging_map: data_validation.py 98-121 and ecl_module.py 94-117         *)
(***************************************************************************)
MatrixSizes == {2, 3, 4, 5}
DpdValues   == (0 - MaxNegDpd)..MaxDpd

staging_map_off_by_one(d, ms) ==
    IF ms \notin {3, 4} THEN "ValueError"
    ELSE IF d < 30 THEN "stage_1"
    ELSE IF d <= 60 /\ ms = 4 THEN "stage_2a"
    ELSE IF d <= 90 THEN (IF ms = 3 THEN "stage_2" ELSE "stage_2b")
    ELSE "stage_3"

staging_map(d, ms) ==
    IF ms \notin {3, 4} THEN "ValueError"
    ELSE IF d <= 30 THEN "stage_1"
    ELSE IF d <= 60 /\ ms = 4 THEN "stage_2a"
    ELSE IF d <= 90 THEN (IF ms = 3 THEN "stage_2" ELSE "stage_2b")
    ELSE "stage_3"

EAD_staging_map(d, ms) ==
    IF ms \notin {3, 4} THEN "ValueError"
    ELSE IF d <= 30 THEN "stage_1"
    ELSE IF d <= 60 /\ ms = 4 THEN "stage_2a"
    ELSE IF d <= 90 THEN (IF ms = 3 THEN "stage_2" ELSE "stage_2b")
    ELSE "stage_3"

BookIdle ==
    /\ bk_loans = <<>> /\ bk_shared = NoValue /\ bk_ead = <<>> /\ bk_lgd = <<>>
    /\ bk_phase = None /\ bk_records = <<>> /\ bk_ecl = NoValue

StagingIdle == dpd = 0 /\ matrix_size = 3 /\ stage = None /\ ead_stage = None

\* one call of each copy of staging_map on the same arguments
Classify ==
    /\ stage = None
    /\ stage' = staging_map(dpd, matrix_size)
    /\ ead_stage' = EAD_staging_map(dpd, matrix_size)
    /\ UNCHANGED <<dpd, matrix_size, pipelineVars, convertVars, projectVars, prepVars, loanVars, bookVars>>

-----------------------------------------------------------------------------
\* placeholders completed below
PipelineIdle ==
    pd_result = NoValue /\ ead_lgd = <<>> /\ ecl_result = NoValue /\ response = NoResponse
ConvertIdle  == cv_matrix = NoValue /\ cv_period = 1 /\ cv_result = NoValue
ProjectIdle  ==
    /\ mx_df = NoValue /\ mx_size = 3 /\ mx_cure_in = NoValue /\ mx_period = 1 /\ mx_mult_len = 1
    /\ mx_monthly = NoValue /\ mx_pds = NoValue /\ mx_cure = NoValue
PrepIdle ==
    /\ pp_data = {} /\ pp_valuation = 1
    /\ pp_prep = NoValue /\ pp_matrices = NoValue /\ pp_cure = NoValue
LoanIdle ==
    /\ ln_loan = NoValue /\ ln_ead = NoValue /\ ln_amort = NoValue
    /\ ln_curves = NoValue /\ ln_lgd = NoValue
    /\ ln_pds = NoValue /\ ln_ecl = NoValue

InitStaging ==
    /\ dpd \in DpdValues
    /\ matrix_size \in MatrixSizes
    /\ stage = None
    /\ ead_stage = None
    /\ PipelineIdle /\ ConvertIdle /\ ProjectIdle /\ PrepIdle /\ LoanIdle /\ BookIdle

NextStaging == Classify

SpecStaging == InitStaging /\ [][NextStaging]_vars

-----------------------------------------------------------------------------
(***************************************************************************)
(* C1: for every days_past_due value and matrix_size in {3,4} staging_map  *)
(* returns, with matrix_size 3, stage_1 if dpd<=30, stage_2 if 30<dpd<=90, *)
(* stage_3 otherwise; with matrix_size 4, stage_1 if dpd<=30, stage_2a if  *)
(* 30<dpd<=60, stage_2b if 60<dpd<=90, stage_3 otherwise; and the method   *)
(* on ExposureAtDefault returns the same label as the module function.     *)
(***************************************************************************)
C1_Rule(d, ms) ==
    IF ms = 3
    THEN CASE d <= 30             -> "stage_1"
           [] 30 < d /\ d <= 90   -> "stage_2"
           [] OTHER               -> "stage_3"
    ELSE CASE d <= 30             -> "stage_1"
           [] 30 < d /\ d <= 60   -> "stage_2a"
           [] 60 < d /\ d <= 90   -> "stage_2b"
           [] OTHER               -> "stage_3"

\* C1: both copies of staging_map return the label of the staging rule
C1_StagingRule ==
    (stage # None /\ matrix_size \in {3, 4}) =>
        /\ stage = C1_Rule(dpd, matrix_size)
        /\ ead_stage = stage

C1_Witness ==
    /\ stage = "stage_2b" /\ ead_stage = "stage_2b"
    /\ matrix_size = 4 /\ dpd = 61

-----------------------------------------------------------------------------
(***************************************************************************)
(* One call of convert_to_monthly_transition_matrix                        *)
(***************************************************************************)
\* rows enumerated directly: entries k/GridDen, k >= -1, summing to 1 or to less
ConvertRows ==
    {r \in [1..3 -> (0 - 1)..GridDen] : SumSeq(r) \in {GridDen - 1, GridDen}}

ConvertGrid == {Mat(<<r1, r2, r3>>, GridDen) : <<r1, r2, r3>> \in ConvertRows \X ConvertRows \X ConvertRows}

ConvertInputs == ConvertGrid \cup {t.power : t \in RootTable}

InitConvert ==
    /\ cv_period \in 1..MaxPeriod
    /\ cv_matrix \in {M \in ConvertInputs : Convertible(M, cv_period)}
    /\ cv_result = NoValue
    /\ StagingIdle /\ PipelineIdle /\ ProjectIdle /\ PrepIdle /\ LoanIdle /\ BookIdle

convert ==
    /\ cv_result = NoValue
    /\ cv_result' = convert_to_monthly_transition_matrix(cv_matrix, cv_period)
    /\ UNCHANGED <<cv_matrix, cv_period, stagingVars, pipelineVars, projectVars, prepVars, loanVars, bookVars>>

NextConvert == convert

SpecConvert == InitConvert /\ [][NextConvert]_vars

(***************************************************************************)
(* C5: for every valid row-stochastic M and every period p >= 1 the        *)
(* converted matrix has entries >= 0 and rows summing to 1.                *)
(***************************************************************************)
\* C5: the conversion of a stochastic matrix is a stochastic matrix
C5_ConvertedIsStochastic ==
    (cv_result # NoValue /\ IsStochastic(cv_matrix)) => IsStochastic(cv_result)

(***************************************************************************)
(* C6: convert_to_monthly_transition_matrix(M, 1) returns M exactly, for   *)
(* every M, stochastic or not.                                             *)
(***************************************************************************)
\* C6: with period 1 the returned matrix is the argument, entry for entry
C6_PeriodOneIdentity ==
    (cv_result # NoValue /\ cv_period = 1) => cv_result = cv_matrix

C6_Witness ==
    /\ cv_period = 1 /\ cv_result = cv_matrix
    /\ ~ IsStochastic(cv_matrix)
    /\ \E i \in 1..3 : \E j \in 1..3 : cv_matrix.n[i][j] < 0

-----------------------------------------------------------------------------
(***************************************************************************)
(* absorbing_state, extract_pds and cure_rate applied to one data set      *)
(***************************************************************************)
SegmentNames == {"A", "B"}

\* a row of base_matrices: balance shares k/d of the next stages, or the row of
\* zeros that the normalisation leaves for a stage without observations
TopRows(ms, d) == {r \in [1..ms -> 0..d] : SumSeq(r) \in {0, d}}

UnitRow(ms, k, d) == [j \in 1..ms |-> IF j = k THEN d ELSE 0]

\* the empirical stage_3 row: absent, or "every stage_3 balance went back to stage_1"
EmpiricalRows(ms, d) == {<<>>, <<UnitRow(ms, 1, d)>>}

\* the second segment: every stage stays where it is, or stage_1 was never observed
OtherTops(ms, d) ==
    {[i \in 1..(ms - 1) |-> UnitRow(ms, i, d)],
     [i \in 1..(ms - 1) |-> IF i = 1 THEN UnitRow(ms, 1, 0) ELSE UnitRow(ms, ms, d)]}

FrameOf(ms, d, topA, topB, emp) ==
    [kind |-> "frame",
     cols |-> SortLabels(Labels(ms)),
     rows |-> SortLabels(Labels(ms) \ {"stage_3"}) \o (IF emp = <<>> THEN <<>> ELSE <<"stage_3">>),
     m    |-> [seg \in SegmentNames |-> Mat((IF seg = "A" THEN topA ELSE topB) \o emp, d)]]

\* with four stages every share is 0 or 1
GridDens(ms) == IF ms = 3 THEN 1..ProjDen ELSE {1}

MonthlyFrames ==
    {FrameOf(x[1], x[2], x[3], x[4], x[5]) :
        x \in UNION {UNION {{ms} \X {d} \X [1..(ms - 1) -> TopRows(ms, d)]
                                 \X OtherTops(ms, d) \X EmpiricalRows(ms, d) :
                              d \in GridDens(ms)} : ms \in {3, 4}}}

\* no loan was ever observed to move to stage_3: the column is missing
TwoColumnFrame ==
    [kind |-> "frame",
     cols |-> <<"stage_1", "stage_2">>,
     rows |-> <<"stage_1", "stage_2">>,
     m    |-> [seg \in SegmentNames |-> Mat(<< <<1, 0>>, <<0, 1>> >>, 1)]]

\* a 12-step power of a matrix k/d fits 32 bits for d <= 5
FitsPower(M) == M.d <= 5

\* frames observed every p > 1 months: powers of the monthly roots of the table
RootTops(p) ==
    {<<t.power.d, SubSeq(t.power.n, 1, 2)>> :
        t \in {u \in RootTable : /\ u.period = p
                                 /\ IsUnitRow(u.power, 3, 3)
                                 /\ FitsPower(ClampRenormalize(u.root))}}

PeriodFrames(p) ==
    {FrameOf(3, x[1][1], x[1][2], x[2], x[3]) :
        x \in UNION {{top} \X {[i \in 1..2 |-> UnitRow(3, i, top[1])]} \X EmpiricalRows(3, top[1]) :
                        top \in RootTops(p)}}

Frames(p) == IF p = 1 THEN MonthlyFrames \cup {TwoColumnFrame} ELSE PeriodFrames(p)

CureConvertible(M, p) ==
    p = 1 \/ (HasRealRoot(M, p) /\ FitsPower(ClampRenormalize(LogExp(M, p))))

CureInputs(p) ==
    {w \in [SegmentNames -> (0..MaxWeight) \X (0..MaxWeight) \X (0..MaxWeight)] :
        \A seg \in SegmentNames : CureConvertible(cr_rr(w[seg]), p)}

InitProject ==
    /\ mx_period \in 1..MaxPeriod
    /\ \/ mx_df \in Frames(mx_period) /\ mx_cure_in = NoValue
       \/ mx_df = NoValue /\ mx_cure_in \in CureInputs(mx_period)
    /\ mx_size = 3 /\ mx_mult_len = 1
    /\ mx_monthly = NoValue /\ mx_pds = NoValue /\ mx_cure = NoValue
    /\ StagingIdle /\ PipelineIdle /\ ConvertIdle /\ PrepIdle /\ LoanIdle /\ BookIdle

\* the call with the rows of lines 86-92 assigned on the caller's frame
CallAbsorbingState_in_place ==
    /\ mx_df # NoValue /\ mx_monthly = NoValue
    /\ \E ms \in MatrixSizes :
          /\ mx_size' = ms
          /\ mx_monthly' = absorbing_state(mx_df, ms, mx_period)
          /\ mx_df' = IF IsRaised(absorbing_state(mx_df, ms, mx_period)) THEN mx_df
                      ELSE [mx_df EXCEPT
                              !.rows = IF "stage_3" \in Range(mx_df.rows) THEN mx_df.rows
                                       ELSE Append(mx_df.rows, "stage_3"),
                              !.m = [seg \in Segments(mx_df) |->
                                        ForceAbsorbing(mx_df.m[seg], mx_df.rows, ms)]]
    /\ UNCHANGED <<mx_cure_in, mx_period, mx_mult_len, mx_pds, mx_cure>>
    /\ UNCHANGED <<stagingVars, pipelineVars, convertVars, prepVars, loanVars, bookVars>>

\* line 85 copies the frame: the caller's mx_df stays as it is
CallAbsorbingState ==
    /\ mx_df # NoValue /\ mx_monthly = NoValue
    /\ \E ms \in MatrixSizes :
          /\ mx_size' = ms
          /\ mx_monthly' = absorbing_state(mx_df, ms, mx_period)
    /\ UNCHANGED <<mx_df, mx_cure_in, mx_period, mx_mult_len, mx_pds, mx_cure>>
    /\ UNCHANGED <<stagingVars, pipelineVars, convertVars, prepVars, loanVars, bookVars>>

CallExtractPds ==
    /\ IsFrame(mx_monthly) /\ mx_pds = NoValue
    /\ \E mult_len \in 0..MaxMultLen :
          /\ mx_mult_len' = mult_len
          /\ mx_pds' = extract_pds(mx_monthly, mx_size, mult_len)
    /\ UNCHANGED <<mx_df, mx_size, mx_cure_in, mx_period, mx_monthly, mx_cure>>
    /\ UNCHANGED <<stagingVars, pipelineVars, convertVars, prepVars, loanVars, bookVars>>

CallCureRate ==
    /\ mx_cure_in # NoValue /\ mx_cure = NoValue
    /\ \E mult_len \in 0..MaxMultLen :
          /\ mx_mult_len' = mult_len
          /\ mx_cure' = cure_rate(mx_cure_in, mult_len, mx_period)
    /\ UNCHANGED <<mx_df, mx_size, mx_cure_in, mx_period, mx_monthly, mx_pds>>
    /\ UNCHANGED <<stagingVars, pipelineVars, convertVars, prepVars, loanVars, bookVars>>

NextProject == CallAbsorbingState \/ CallExtractPds \/ CallCureRate

SpecProject == InitProject /\ [][NextProject]_vars

(***************************************************************************)
(* C7: in every matrix handed to the projection step, for every segment,   *)
(* the stage_3 row is the absorbing row (1 in the stage_3 column, 0 in the *)
(* others) whatever the empirical stage_3 row was, and the column that     *)
(* extract_pds reads as default, index matrix_size - 1, is the stage_3     *)
(* column.                                                                 *)
(***************************************************************************)
IndexOf(seq, x) == CHOOSE i \in 1..Len(seq) : seq[i] = x

\* C7: the stage_3 row of every monthly matrix is the unit row of the default column
C7_Stage3Absorbing ==
    IsFrame(mx_monthly) =>
        /\ "stage_3" \in Range(mx_monthly.rows)
        /\ mx_monthly.cols[DefaultIndex(mx_size)] = "stage_3"
        /\ \A seg \in Segments(mx_monthly) :
              IsUnitRow(mx_monthly.m[seg], IndexOf(mx_monthly.rows, "stage_3"),
                        DefaultIndex(mx_size))

C7_Witness ==
    /\ IsFrame(mx_monthly) /\ mx_period > 1
    /\ "stage_3" \in Range(mx_df.rows)
    /\ \E seg \in Segments(mx_df) : ~ IsUnitRow(mx_df.m[seg], 3, 3)
    /\ \E seg \in Segments(mx_monthly) : IsUnitRow(mx_monthly.m[seg], 3, 3)

(***************************************************************************)
(* C8: for every segment and every non-absorbing origin stage extract_pds  *)
(* returns cumulative[i] = (M^i)[origin_stage, default_stage], i = 1..N,   *)
(* of the segment's monthly matrix M, and marginal[i] = cumulative[i] -    *)
(* cumulative[i-1] with cumulative[0] = 0; the absorbing stage has no      *)
(* curve.  The reference below does not multiply matrices: it carries the  *)
(* vector of the probabilities of being in default i months later.         *)
(***************************************************************************)
RECURSIVE IntPow(_, _)
IntPow(b, e) == IF e = 0 THEN 1 ELSE b * IntPow(b, e - 1)

\* <<v_1, ..., v_n>>: v_i[r] / M.d^i is the probability of being in column col
\* i steps after row r
RECURSIVE ReachVectors(_, _, _)
ReachVectors(M, col, n) ==
    IF n <= 1 THEN << [r \in 1..NRows(M) |-> M.n[r][col]] >>
    ELSE With(ReachVectors(M, col, n - 1), LAMBDA V :
           Append(V, Eval([r \in 1..NRows(M) |->
                             SumSeq([k \in 1..NCols(M) |-> M.n[r][k] * V[n - 1][k]])])))

RefCumulative(M, row, col, n) ==
    With(ReachVectors(M, col, n), LAMBDA V :
      Eval([i \in 1..n |-> Rat(V[i][row], IntPow(M.d, i))]))

RefMarginal(c) ==
    [i \in 1..Len(c) |-> IF i = 1 THEN c[1] ELSE RatSub(c[i], c[i - 1])]

C8_SegmentStage(seg, stg) ==
    LET M    == mx_monthly.m[seg]
        cum  == mx_pds.stage_dicts[stg].cumulative_dict[seg]
        marg == mx_pds.stage_dicts[stg].marginal_dict[seg]
        ref  == RefCumulative(M, IndexOf(mx_monthly.rows, mx_monthly.rows[stg + 1]),
                              IndexOf(mx_monthly.cols, "stage_3"), Len(cum))
    IN  /\ mx_monthly.rows[stg + 1] # "stage_3"
        /\ M.nr = {}
        /\ cum = ref
        /\ marg = RefMarginal(ref)
        /\ mx_pds.cumulative[stg][seg] = [i \in 1..Len(ref) |-> Fmt8(ref[i])]
        /\ mx_pds.marginal[stg][seg] = [i \in 1..Len(ref) |-> Fmt8(RefMarginal(ref)[i])]

IsPds(x) == x # NoValue /\ x.kind = "pds"

\* C8: the returned curves are the powers of the monthly matrix and their differences
C8_CurvesArePowers ==
    IsPds(mx_pds) =>
        /\ DOMAIN mx_pds.cumulative = 0..(Len(mx_monthly.rows) - 2)
        /\ DOMAIN mx_pds.marginal = 0..(Len(mx_monthly.rows) - 2)
        /\ DOMAIN mx_pds.stage_dicts = 0..(Len(mx_monthly.rows) - 2)
        /\ \A stg \in DOMAIN mx_pds.cumulative : \A seg \in Segments(mx_monthly) :
              C8_SegmentStage(seg, stg)

C8_Witness ==
    /\ IsPds(mx_pds) /\ mx_size = 4 /\ mx_mult_len = MaxMultLen
    /\ \E seg \in Segments(mx_monthly) :
          /\ Len(mx_pds.cumulative[0][seg]) = PdHorizon
          /\ Len(mx_pds.marginal[2][seg]) = MaxMultLen - 1
          /\ mx_pds.stage_dicts[1].cumulative_dict[seg][1] # mx_pds.stage_dicts[1].cumulative_dict[seg][2]

(***************************************************************************)
(* C9: for every row-stochastic monthly matrix whose default state is      *)
(* absorbing and every horizon, each cumulative curve of the projector     *)
(* (the default curves of extract_pds, the cure and recovery curves inside *)
(* cure_rate) is non-decreasing with every entry in [0,1]; every marginal  *)
(* entry is >= 0.                                                          *)
(***************************************************************************)
IsCures(x) == x # NoValue /\ x.kind = "cures"

\* a curve of numbers in [0,1] that never decreases
Monotone01(c) ==
    \A i \in 1..Len(c) :
        /\ IsNum(c[i]) /\ 0 <= c[i].n /\ c[i].n <= c[i].d
        /\ i > 1 => RatLeq(c[i - 1], c[i])

NonNegative(c) == \A i \in 1..Len(c) : IsNum(c[i]) /\ c[i].n >= 0

\* the same for the returned strings, read as counts of 1e-8
Monotone01Text(c) ==
    \A i \in 1..Len(c) :
        /\ c[i].kind = "f8" /\ 0 <= c[i].units /\ c[i].units <= 100000000
        /\ i > 1 => c[i - 1].units <= c[i].units

C9_Pds ==
    IsPds(mx_pds) =>
        \A seg \in Segments(mx_monthly) :
            (IsStochastic(mx_monthly.m[seg]) /\ IsUnitRow(mx_monthly.m[seg], mx_size, mx_size)) =>
                \A stg \in DOMAIN mx_pds.stage_dicts :
                    /\ Monotone01(mx_pds.stage_dicts[stg].cumulative_dict[seg])
                    /\ NonNegative(mx_pds.stage_dicts[stg].marginal_dict[seg])
                    /\ Monotone01Text(mx_pds.cumulative[stg][seg])
                    /\ \A i \in 1..Len(mx_pds.marginal[stg][seg]) :
                          mx_pds.marginal[stg][seg][i].units >= 0

C9_Cures ==
    IsCures(mx_cure) =>
        \A seg \in DOMAIN mx_cure.segments :
            IsStochastic(mx_cure.segments[seg].monthly_cr_rr) =>
                /\ Monotone01(mx_cure.segments[seg].cumulative_cure_rate)
                /\ Monotone01(mx_cure.segments[seg].cumulative_recovery_rate)
                /\ NonNegative(mx_cure.segments[seg].cure_rates)
                /\ NonNegative(mx_cure.segments[seg].recovery_rates)

\* C9: cumulative curves of a stochastic matrix with absorbing default never decrease
C9_CumulativeMonotone == C9_Pds /\ C9_Cures

C9_Witness ==
    /\ IsPds(mx_pds) /\ mx_period > 1
    /\ \E seg \in Segments(mx_monthly) :
          /\ IsStochastic(mx_monthly.m[seg]) /\ IsUnitRow(mx_monthly.m[seg], mx_size, mx_size)
          /\ LET c == mx_pds.stage_dicts[0].cumulative_dict[seg]
             IN  /\ Len(c) = PdHorizon
                 /\ \A i \in 2..Len(c) : c[i - 1] # c[i]
                 /\ c[Len(c)].n < c[Len(c)].d

(***************************************************************************)
(* C10: for every curve pair of the projector, the marginal curve summed   *)
(* over months 1..N equals the last value cumulative[N] of the cumulative  *)
(* curve.  The curves are the arrays of lines 133-140 and 175-182; for the *)
(* strings that extract_pds returns the two differ by at most the rounding *)
(* of N + 1 values, half a unit of 1e-8 each.                              *)
(***************************************************************************)
RECURSIVE RatSumR(_)
RatSumR(c) == IF c = <<>> THEN Rat(0, 1) ELSE RatAdd(Head(c), RatSumR(Tail(c)))

RatSum(c) == RatSumR(c)

LastOr0(c) == IF Len(c) = 0 THEN Rat(0, 1) ELSE c[Len(c)]

AllNum(c) == \A i \in 1..Len(c) : IsNum(c[i])

Telescopes(marg, cum) ==
    AllNum(cum) => (Len(marg) = Len(cum) /\ RatSum(marg) = LastOr0(cum))

TextSum(c) == SumSeq([i \in 1..Len(c) |-> c[i].units])

TextLast(c) == IF Len(c) = 0 THEN 0 ELSE c[Len(c)].units

TelescopesText(marg, cum) ==
    (\A i \in 1..Len(cum) : cum[i].kind = "f8") =>
        /\ Len(marg) = Len(cum)
        /\ 2 * Abs(TextSum(marg) - TextLast(cum)) <= Len(cum) + 1

C10_Pds ==
    IsPds(mx_pds) =>
        \A stg \in DOMAIN mx_pds.stage_dicts : \A seg \in Segments(mx_monthly) :
            /\ Telescopes(mx_pds.stage_dicts[stg].marginal_dict[seg],
                          mx_pds.stage_dicts[stg].cumulative_dict[seg])
            /\ TelescopesText(mx_pds.marginal[stg][seg], mx_pds.cumulative[stg][seg])

C10_Cures ==
    IsCures(mx_cure) =>
        \A seg \in DOMAIN mx_cure.segments :
            /\ Telescopes(mx_cure.segments[seg].cure_rates,
                          mx_cure.segments[seg].cumulative_cure_rate)
            /\ Telescopes(mx_cure.segments[seg].recovery_rates,
                          mx_cure.segments[seg].cumulative_recovery_rate)

-----------------------------------------------------------------------------
(***************************************************************************)
(* The request handlers of views.py.  Every query of the three result      *)
(* tables is filtered by project; the model follows the rows of one        *)
(* project.  A historical file is described by what data_prep and the      *)
(* aggregations make of it: the period, the frame of base_matrices and the *)
(* stage_3 balances read by cure_rate.                                     *)
(***************************************************************************)
MAT_SIZE == 3

Response(view, outcome) == [view |-> view, outcome |-> outcome]

IsPdRow(x) == x # NoValue /\ x.kind = "pd_row"

\* the frame and the balances of the segments S only
OnlySegments(df, S) == [df EXCEPT !.m = [seg \in S |-> df.m[seg]]]

\* segment A: half of every performing stage stays, half moves one stage on
HealthyTop == << <<1, 1, 0>>, <<0, 1, 1>> >>

\* the files are monthly (data_prep finds period 1): segment B stays where it is,
\* or has no stage_1 observation at all; or no loan of the file ever reached stage_3
FileFrames ==
    {FrameOf(MAT_SIZE, 2, HealthyTop, topB, <<>>) : topB \in OtherTops(MAT_SIZE, 2)}
        \cup {TwoColumnFrame}

\* stage_3 balances <<cured, recovered, stage_3>> of the segments
FileCures == [seg \in SegmentNames |-> IF seg = "A" THEN <<1, 0, 1>> ELSE <<0, 1, 1>>]

\* a file holds loans of segment A only, or of both segments
SegmentSets == {{"A"}, SegmentNames}

CsvFiles ==
    {[kind     |-> "csv",
      period   |-> 1,
      matrices |-> OnlySegments(x[1], x[2]),
      cure_in  |-> [seg \in x[2] |-> FileCures[seg]]] : x \in FileFrames \X SegmentSets}

\* what can be posted to upload_historical_loan_data
HistoricalFiles == {[kind |-> "not_csv"], [kind |-> "unreadable"]} \cup CsvFiles

\* helpers.py 6-30: the row of the project is updated if it exists and created
\* if it does not; either way it holds new_data afterwards
run_calculations_for_project(new_data) ==
    [kind                   |-> "pd_row",
     base_transition_matrix |-> new_data.base_transition_matrix,
     stage_1_cumulative     |-> new_data.stage_1_cumulative,
     stage_2_cumulative     |-> new_data.stage_2_cumulative,
     stage_1_marginal       |-> new_data.stage_1_marginal,
     stage_2_marginal       |-> new_data.stage_2_marginal,
     cures                  |-> new_data.cures,
     recoveries             |-> new_data.recoveries]

\* views.py 185-210: everything between data_prep and the saved row; the
\* projection runs over MaxMultLen months (MAT_MULT in the code)
historical_calculations(file) ==
    With(absorbing_state(file.matrices, MAT_SIZE, file.period), LAMBDA matrices :
      IF IsRaised(matrices) THEN matrices
      ELSE With(cure_rate(file.cure_in, MaxMultLen, file.period), LAMBDA cr :
             With(extract_pds(matrices, MAT_SIZE, MaxMultLen), LAMBDA final_output :
               IF IsRaised(final_output) THEN final_output
               ELSE run_calculations_for_project(
                      [base_transition_matrix |-> matrices.m,
                       stage_1_cumulative     |-> final_output.cumulative[0],
                       stage_2_cumulative     |-> final_output.cumulative[1],
                       stage_1_marginal       |-> final_output.marginal[0],
                       stage_2_marginal       |-> final_output.marginal[1],
                       cures                  |-> cr.cure_df,
                       recoveries             |-> cr.recovery_df]))))

\* the outcome of lines 185-210 for every file that can be posted
HistoricalOutcomes == Eval([file \in CsvFiles |-> historical_calculations(file)])

\* views.py 165-236, a POST request
upload_historical_loan_data ==
    /\ \E file \in HistoricalFiles :
          IF file.kind = "not_csv"
          THEN /\ pd_result' = pd_result
               /\ response' = Response("upload_historical_loan_data",
                                       "Please Upload a CSV file Only!")
          ELSE IF file.kind = "unreadable"
          THEN /\ pd_result' = pd_result
               /\ response' = Response("upload_historical_loan_data", "Error reading file")
          ELSE With(HistoricalOutcomes[file], LAMBDA row :
                 IF IsRaised(row)
                 THEN /\ pd_result' = pd_result
                      /\ response' = Response("upload_historical_loan_data",
                                              "Error reading file")
                 ELSE /\ pd_result' = row
                      /\ response' = Response("upload_historical_loan_data",
                                              "File processing completed successfully."))
    /\ UNCHANGED <<ead_lgd, ecl_result>>
    /\ UNCHANGED <<stagingVars, convertVars, projectVars, prepVars, loanVars, bookVars>>

(***************************************************************************)
(* upload_current_loan_book: views.py 240-349.  A loan of the book is its  *)
(* account number, its segment and its days past due; the amortization     *)
(* schedule depends on the loan alone and is left out, the LGD schedule is *)
(* represented by the cure and recovery curves it is computed from.        *)
(***************************************************************************)
MaxBookLen == 2     \* lines of a loan book file

Accounts == {1, 2}

\* a performing loan of segment A, a loan of segment B past 30 days and one past 90
LoanKinds == {<<"A", 0>>, <<"B", 45>>, <<"B", MaxDpd>>}

Loans ==
    {[account_no |-> a, loan_type |-> k[1], days_past_due |-> k[2]] :
        a \in Accounts, k \in LoanKinds}

\* what can be posted to upload_current_loan_book; a file without the
\* days_past_due column is read but cannot be staged
LoanBookFiles ==
    {[kind |-> "not_csv"], [kind |-> "unreadable"], [kind |-> "no_dpd_column"]}
        \cup {[kind |-> "csv", loans |-> b] : b \in UNION {[1..n -> Loans] : n \in 1..MaxBookLen}}

\* line 261: the staging column
staged(loanbook) ==
    [i \in DOMAIN loanbook |->
        [account_no |-> loanbook[i].account_no,
         loan_type  |-> loanbook[i].loan_type,
         staging    |-> staging_map(loanbook[i].days_past_due, MAT_SIZE)]]

\* helpers.py 33-56: one line per account number, in the order of the account
\* numbers, holding the first loan_type and staging of the account
remove_loan_duplicates(dataframe) ==
    LET accounts == {dataframe[i].account_no : i \in DOMAIN dataframe}
        first(a) == dataframe[CHOOSE i \in DOMAIN dataframe :
                                 /\ dataframe[i].account_no = a
                                 /\ \A j \in 1..(i - 1) : dataframe[j].account_no # a]
        order == CHOOSE o \in [1..Cardinality(accounts) -> accounts] :
                    \A i \in DOMAIN o : \A j \in DOMAIN o : i < j => o[i] < o[j]
    IN  [i \in 1..Cardinality(accounts) |-> first(order[i])]

\* ecl_module.py 183-187: the curves of the loan's segment, KeyError without them
LossGivenDefault(exposure, cure_rate_df, recovery_rate) ==
    IF exposure.loan_type \notin DOMAIN cure_rate_df THEN Raised("KeyError")
    ELSE IF exposure.loan_type \notin DOMAIN recovery_rate THEN Raised("KeyError")
    ELSE [kind          |-> "lgd",
          stage         |-> exposure.staging,
          cure_rate     |-> cure_rate_df[exposure.loan_type],
          recovery_rate |-> recovery_rate[exposure.loan_type]]

\* lines 278-308: the result lines, or the first exception of the LGD step
loan_book_results(loanbook, cures, recoveries) ==
    With([i \in DOMAIN loanbook |-> LossGivenDefault(loanbook[i], cures, recoveries)],
         LAMBDA LGD :
      IF \E i \in DOMAIN LGD : IsRaised(LGD[i]) THEN Raised("KeyError")
      ELSE [kind |-> "results",
            rows |-> [i \in DOMAIN loanbook |->
                        [account_no   |-> loanbook[i].account_no,
                         stage        |-> loanbook[i].staging,
                         loan_type    |-> loanbook[i].loan_type,
                         lgd_schedule |-> [cure_rate     |-> LGD[i].cure_rate,
                                           recovery_rate |-> LGD[i].recovery_rate]]]])

\* the handler with the PD lookup of line 264 taken out: LGD schedules without curves
upload_current_loan_book_without_pd_lookup ==
    /\ \E file \in LoanBookFiles :
          IF file.kind = "not_csv"
          THEN /\ ead_lgd' = ead_lgd
               /\ response' = Response("upload_current_loan_book",
                                       "Please Upload a CSV file Only!")
          ELSE IF file.kind = "unreadable"
          THEN /\ ead_lgd' = ead_lgd
               /\ response' = Response("upload_current_loan_book", "Error reading file")
          ELSE IF file.kind = "no_dpd_column"
          THEN /\ ead_lgd' = <<>>
               /\ response' = Response("upload_current_loan_book", "Error reading file")
          ELSE With(remove_loan_duplicates(staged(file.loans)), LAMBDA loanbook :
                 /\ ead_lgd' = [i \in DOMAIN loanbook |->
                                  [account_no   |-> loanbook[i].account_no,
                                   stage        |-> loanbook[i].staging,
                                   loan_type    |-> loanbook[i].loan_type,
                                   lgd_schedule |-> NoValue]]
                 /\ response' = Response("upload_current_loan_book",
                                         "EAD and LGD calculations completed"))
    /\ UNCHANGED <<pd_result, ecl_result>>
    /\ UNCHANGED <<stagingVars, convertVars, projectVars, prepVars, loanVars, bookVars>>

\* views.py 240-349, a POST request.  Line 257 deletes the rows of the project
\* before the PD row is looked up at line 264; the rows are created at 311-323
upload_current_loan_book ==
    /\ \E file \in LoanBookFiles :
          IF file.kind = "not_csv"
          THEN /\ ead_lgd' = ead_lgd
               /\ response' = Response("upload_current_loan_book",
                                       "Please Upload a CSV file Only!")
          ELSE IF file.kind = "unreadable"
          THEN /\ ead_lgd' = ead_lgd
               /\ response' = Response("upload_current_loan_book", "Error reading file")
          ELSE IF file.kind = "no_dpd_column"
          THEN /\ ead_lgd' = <<>>
               /\ response' = Response("upload_current_loan_book", "Error reading file")
          ELSE IF pd_result = NoValue
          THEN /\ ead_lgd' = <<>>
               /\ response' = Response("upload_current_loan_book", "ValidationError")
          ELSE With(loan_book_results(remove_loan_duplicates(staged(file.loans)),
                                      pd_result.cures, pd_result.recoveries),
                    LAMBDA results :
                 IF IsRaised(results)
                 THEN /\ ead_lgd' = <<>>
                      /\ response' = Response("upload_current_loan_book",
                                              "Error reading file")
                 ELSE /\ ead_lgd' = results.rows
                      /\ response' = Response("upload_current_loan_book",
                                              "EAD and LGD calculations completed"))
    /\ UNCHANGED <<pd_result, ecl_result>>
    /\ UNCHANGED <<stagingVars, convertVars, projectVars, prepVars, loanVars, bookVars>>

(***************************************************************************)
(* calculate_ECL: views.py 374-422, ECL_Calc and calculate_single_loan_ecl:*)
(* ecl_module.py 299-394.  The ECL of a loan is represented by the factors *)
(* of line 356: the PD curve and the LGD schedule of the loan.             *)
(***************************************************************************)
\* pd.Series([1] * num)
Ones == [kind |-> "ones"]

\* lines 341-346 are outside the try of 355-359: a segment without a column in
\* the PD frame of the loan's stage ends the call with KeyError
calculate_single_loan_ecl(account_no, stg, loan_type, lgd_schedule, stage1_pds, stage2_pds) ==
    With(IF stg = "stage_1"
         THEN (IF loan_type \in DOMAIN stage1_pds THEN stage1_pds[loan_type]
               ELSE Raised("KeyError"))
         ELSE IF stg = "stage_2"
         THEN (IF loan_type \in DOMAIN stage2_pds THEN stage2_pds[loan_type]
               ELSE Raised("KeyError"))
         ELSE Ones,
         LAMBDA PD :
      IF PD = Raised("KeyError") THEN PD
      ELSE [account_no |-> account_no,
            stage      |-> stg,
            loan_type  |-> loan_type,
            PD         |-> PD,
            LGD        |-> lgd_schedule])

\* lines 384-394: map over the loans, then pd.concat; an exception of one call
\* ends the map
ECL_Calc(rows, stage1_pds, stage2_pds) ==
    With([i \in DOMAIN rows |->
             calculate_single_loan_ecl(rows[i].account_no, rows[i].stage, rows[i].loan_type,
                                       rows[i].lgd_schedule, stage1_pds, stage2_pds)],
         LAMBDA results :
      IF \E i \in DOMAIN results : results[i] = Raised("KeyError") THEN Raised("KeyError")
      ELSE [kind |-> "ecl", loans |-> results])

\* views.py 374-422
calculate_ECL ==
    /\ IF ead_lgd = <<>>
       THEN /\ ecl_result' = ecl_result
            /\ response' = Response("calculate_ECL", "EAD and LGD data not found.")
       ELSE IF pd_result = NoValue
       THEN /\ ecl_result' = ecl_result
            /\ response' = Response("calculate_ECL", "PD data not found.")
       ELSE With(ECL_Calc(ead_lgd, pd_result.stage_1_marginal, pd_result.stage_2_marginal),
                 LAMBDA ECL :
              IF IsRaised(ECL)
              THEN /\ ecl_result' = ecl_result
                   /\ response' = Response("calculate_ECL", ECL.error)
              ELSE /\ ecl_result' = [kind |-> "ecl_row", ecl_results |-> ECL.loans]
                   /\ response' = Response("calculate_ECL", "redirect"))
    /\ UNCHANGED <<pd_result, ead_lgd>>
    /\ UNCHANGED <<stagingVars, convertVars, projectVars, prepVars, loanVars, bookVars>>

InitPipeline ==
    PipelineIdle /\ StagingIdle /\ ConvertIdle /\ ProjectIdle /\ PrepIdle /\ LoanIdle /\ BookIdle

NextPipeline ==
    \/ upload_historical_loan_data
    \/ upload_current_loan_book
    \/ calculate_ECL

SpecPipeline == InitPipeline /\ [][NextPipeline]_vars

(***************************************************************************)
(* C2: the per-loan phase never runs ahead of the segment-level phase.     *)
(* A request stores EAD/LGD rows only if the project already has a PD row  *)
(* that holds matrices, PD curves, cure and recovery curves for all of its *)
(* segments, and every stored LGD schedule is computed from the curves of  *)
(* that row; a request writes an ECL result only if the project has a PD   *)
(* row and EAD/LGD rows, and no ECL result is written otherwise.           *)
(***************************************************************************)
PdComplete(row) ==
    /\ IsPdRow(row)
    /\ DOMAIN row.base_transition_matrix # {}
    /\ \A curves \in {row.stage_1_cumulative, row.stage_2_cumulative, row.stage_1_marginal,
                      row.stage_2_marginal, row.cures, row.recoveries} :
          DOMAIN curves = DOMAIN row.base_transition_matrix

C2_LoanPhase ==
    (\/ ead_lgd' # ead_lgd /\ ead_lgd' # <<>>
     \/ response' = Response("upload_current_loan_book", "EAD and LGD calculations completed"))
        => /\ PdComplete(pd_result)
           /\ ead_lgd' # <<>>
           /\ \A i \in DOMAIN ead_lgd' :
                 /\ ead_lgd'[i].loan_type \in DOMAIN pd_result.cures
                 /\ ead_lgd'[i].lgd_schedule =
                       [cure_rate     |-> pd_result.cures[ead_lgd'[i].loan_type],
                        recovery_rate |-> pd_result.recoveries[ead_lgd'[i].loan_type]]

C2_EclPhase ==
    /\ (\/ ecl_result' # ecl_result
        \/ response' = Response("calculate_ECL", "redirect"))
          => PdComplete(pd_result) /\ ead_lgd # <<>>
    /\ (pd_result = NoValue \/ ead_lgd = <<>>) => ecl_result' = ecl_result

C3_Computed(rows, row) ==
    {rows[i].account_no : i \in
        {j \in DOMAIN rows :
            calculate_single_loan_ecl(rows[j].account_no, rows[j].stage, rows[j].loan_type,
                                      rows[j].lgd_schedule, row.stage_1_marginal,
                                      row.stage_2_marginal) # Raised("KeyError")}}

C3_BatchStep ==
    (response'.view = "calculate_ECL" /\ ead_lgd # <<>> /\ pd_result # NoValue)
        => /\ response'.outcome = "redirect"
           /\ ecl_result' # NoValue
           /\ {ecl_result'.ecl_results[i].account_no : i \in DOMAIN ecl_result'.ecl_results}
                 = C3_Computed(ead_lgd, pd_result)

C3_PerLoanIsolation == [][C3_BatchStep]_vars

(***************************************************************************)
(* C4: a degenerate segment is isolated.  A segment whose matrix has a row *)
(* of zero total weight is left out of the stored PD output: every segment *)
(* of the PD row has a valid stochastic matrix.                            *)
(***************************************************************************)
C4_DegenerateSegmentExcluded ==
    IsPdRow(pd_result)
        => \A seg \in DOMAIN pd_result.stage_1_marginal :
              IsStochastic(pd_result.base_transition_matrix[seg])

-----------------------------------------------------------------------------
(***************************************************************************)
(* C11: curve horizons.  The cumulative and marginal PD curves of the      *)
(* first origin row have 12 entries; the curves of every later origin row  *)
(* and the cure and recovery curves have mult_len entries, mult_len being  *)
(* the argument of the call.                                               *)
(***************************************************************************)
C11_PdHorizons ==
    IsPds(mx_pds) =>
        \A seg \in Segments(mx_monthly) : \A stg \in DOMAIN mx_pds.stage_dicts :
            \A c \in {mx_pds.stage_dicts[stg].cumulative_dict[seg],
                      mx_pds.stage_dicts[stg].marginal_dict[seg],
                      mx_pds.cumulative[stg][seg], mx_pds.marginal[stg][seg]} :
                Len(c) = (IF stg = 0 THEN 12 ELSE mx_mult_len)

C11_CureHorizons ==
    IsCures(mx_cure) =>
        \A seg \in DOMAIN mx_cure.segments :
            \A c \in {mx_cure.segments[seg].cure_rates, mx_cure.segments[seg].recovery_rates,
                      mx_cure.cure_df[seg], mx_cure.recovery_df[seg]} :
                Len(c) = mx_mult_len

C11_CurveHorizons == C11_PdHorizons /\ C11_CureHorizons

-----------------------------------------------------------------------------
(***************************************************************************)
(* data_prep: data_validation.py 138-195.  An observation of the cleaned   *)
(* file is [account_no, date, loan_type, days_past_due, out_balance]; the  *)
(* dates of a file are month ends, written as month numbers counted from   *)
(* January 2023, and an account has one observation per date.  Balances    *)
(* are whole amounts >= 0.                                                 *)
(***************************************************************************)
\* the day number of the last day of month m, day 1 being 1 January 2023
MonthEndDay ==
    <<31, 59, 90, 120, 151, 181, 212, 243, 273, 304, 334, 365, 396, 425, 456, 486>>

RECURSIVE SortSetR(_)
SortSetR(S) ==
    IF S = {} THEN <<>>
    ELSE LET m == CHOOSE x \in S : \A y \in S : x <= y
         IN  <<m>> \o SortSetR(S \ {m})

\* drop_duplicates().sort_values()
SortSet(S) == SortSetR(S)

\* lines 133-136: min keeps the first of the periods at the least distance, and
\* the first period when the distances are NaN
closest_period(avg_months) ==
    IF ~IsNum(avg_months) THEN 1
    ELSE LET key(x) == Abs(x * avg_months.d - avg_months.n)
         IN  CHOOSE p \in {1, 3, 6, 12} :
                \A q \in {1, 3, 6, 12} : key(p) < key(q) \/ (key(p) = key(q) /\ p <= q)

\* line 157: unique_dates.diff().dropna().dt.days
date_diffs(unique_dates) ==
    [i \in 1..(Len(unique_dates) - 1) |->
        MonthEndDay[unique_dates[i + 1]] - MonthEndDay[unique_dates[i]]]

\* lines 158-159: the mean of the gaps in days, divided by 30.44
avg_months_of(diffs) ==
    IF Len(diffs) = 0 THEN NaN ELSE Rat(100 * SumSeq(diffs), 3044 * Len(diffs))

\* lines 155-161
detect_period(data) ==
    closest_period(avg_months_of(date_diffs(SortSet({o.date : o \in data}))))

\* the observation of the same account one period later, as a set of 0 or 1 elements
next_observation(data, o, period) ==
    {n \in data : n.account_no = o.account_no /\ n.date = o.date + period}

\* lines 168-191 for one observation
prepared(data, o, ms, period) ==
    LET nxt == next_observation(data, o, period)
        current_stage == staging_map(o.days_past_due, ms)
        next_stage == IF nxt = {} THEN "exit"
                      ELSE staging_map((CHOOSE n \in nxt : TRUE).days_past_due, ms)
        next_value == IF nxt = {} THEN 0 ELSE (CHOOSE n \in nxt : TRUE).out_balance
        last_date == CHOOSE d \in {x.date : x \in data} : \A x \in data : x.date <= d
    IN  [account_no      |-> o.account_no,
         current_date    |-> o.date,
         loan_type       |-> o.loan_type,
         out_balance     |-> o.out_balance,
         current_stage   |-> current_stage,
         next_stage      |-> next_stage,
         cures           |-> IF current_stage = "stage_3"
                                  /\ next_stage \in (IF ms = 3 THEN {"stage_1", "stage_2"}
                                                      ELSE {"stage_1", "stage_2a", "stage_2b"})
                             THEN "cured" ELSE next_stage,
         next_value      |-> next_value,
         exit_recoveries |-> IF current_stage = "stage_3" /\ next_stage = "exit"
                                  /\ o.date # last_date
                             THEN o.out_balance ELSE 0,
         cash_recoveries |-> IF current_stage = "stage_3" /\ next_stage = "stage_3"
                                  /\ next_value < o.out_balance
                             THEN o.out_balance - next_value ELSE 0]

\* data_prep without the test of lines 148-149
data_prep_any_size(data, ms, valuation_date) ==
    IF data = {} THEN Raised("ValueError")
    ELSE With(detect_period(data), LAMBDA period :
           [kind    |-> "prep",
            pd_data |-> {prepared(data, o, ms, period) : o \in {x \in data : x.date < valuation_date}},
            period  |-> period])

\* data_prep: the rows before valuation_date and the period; max() of line 187
\* raises ValueError on a file without observations
data_prep(data, ms, valuation_date) ==
    IF ms \notin {3, 4} THEN Raised("ValueError")
    ELSE IF data = {} THEN Raised("ValueError")
    ELSE With(detect_period(data), LAMBDA period :
           [kind    |-> "prep",
            pd_data |-> {prepared(data, o, ms, period) : o \in {x \in data : x.date < valuation_date}},
            period  |-> period])

RECURSIVE SumOverR(_, _)
SumOverR(S, column) ==
    IF S = {} THEN 0
    ELSE LET r == CHOOSE x \in S : TRUE IN r[column] + SumOverR(S \ {r}, column)

\* df[column].sum()
SumOver(S, column) == SumOverR(S, column)

with_exits(df) == df

\* matrix_functions.py line 30
without_exits(df) == {r \in df : r.next_stage # "exit"}

\* matrix_functions.py 30-40: pd.crosstab(..., aggfunc="sum", dropna=False,
\* normalize='index') divides every row by its sum and then fills NaN with 0, so
\* a row whose balances sum to 0 is a row of zeros; dropna=False gives every
\* segment every current stage of the frame
base_matrices(df) ==
    With(without_exits(df), LAMBDA kept :
      LET rows == SortLabels({r.current_stage : r \in kept})
          cols == SortLabels({r.next_stage : r \in kept})
          cell(seg, i, j) ==
              SumOver({r \in kept : r.loan_type = seg /\ r.current_stage = rows[i]
                                     /\ r.next_stage = cols[j]}, "out_balance")
          total(seg, i) ==
              SumOver({r \in kept : r.loan_type = seg /\ r.current_stage = rows[i]},
                      "out_balance")
          M(seg) ==
              With([i \in 1..Len(rows) |-> total(seg, i)], LAMBDA t :
                With(LcmSeq([i \in 1..Len(rows) |-> IF t[i] = 0 THEN 1 ELSE t[i]]), LAMBDA L :
                  Mat([i \in 1..Len(rows) |-> [j \in 1..Len(cols) |->
                          IF t[i] = 0 THEN 0 ELSE cell(seg, i, j) * (L \div t[i])]], L)))
      IN  [kind |-> "frame",
           cols |-> cols,
           rows |-> rows,
           m    |-> [seg \in {r.loan_type : r \in kept} |-> M(seg)]])

\* matrix_functions.py 166-169: the balances that make row 2 of cr_rr
cure_balances(dff) ==
    <<SumOver({r \in dff : r.cures = "cured"}, "out_balance"),
      SumOver(dff, "exit_recoveries") + SumOver(dff, "cash_recoveries"),
      SumOver({r \in dff : r.cures = "stage_3"}, "out_balance")>>

\* matrix_functions.py 152-171: cr_rr of every loan segment of df
cure_matrices(df) ==
    [seg \in {r.loan_type : r \in df} |->
        cr_rr(cure_balances({r \in df : r.loan_type = seg}))]

-----------------------------------------------------------------------------
(***************************************************************************)
(* SpecPrep: a cleaned historical file goes through data_prep,             *)
(* base_matrices and cure_rate in the order of views.py 185-187.           *)
(***************************************************************************)
MaxBalance == 2
MaxMonth   == 9

Obs(account_no, date, loan_type, days_past_due, out_balance) ==
    [account_no |-> account_no, date |-> date, loan_type |-> loan_type,
     days_past_due |-> days_past_due, out_balance |-> out_balance]

\* what one account shows at one date: nothing, or arrears and a balance
Cells(dpds, balances) == {<<>>} \cup {<<d, b>> : d \in dpds, b \in balances}

ObsOf(account_no, date, loan_type, cell) ==
    IF cell = <<>> THEN {} ELSE {Obs(account_no, date, loan_type, cell[1], cell[2])}

\* two accounts over two successive month ends
DenseFiles ==
    {ObsOf(1, 1, "A", x[1]) \cup ObsOf(1, 2, "A", x[2])
        \cup ObsOf(2, 1, x[5], x[3]) \cup ObsOf(2, 2, x[5], x[4]) :
     x \in Cells({0, 45, MaxDpd}, 0..MaxBalance) \X Cells({0, 45, MaxDpd}, 0..MaxBalance)
           \X Cells({0, MaxDpd}, {1}) \X Cells({0, MaxDpd}, {1}) \X SegmentNames}

\* one performing account seen at any set of month ends
SparseFiles == {{Obs(1, d, "A", 0, 1) : d \in D} : D \in SUBSET (1..MaxMonth)}

InitPrep ==
    /\ pp_data \in DenseFiles \cup SparseFiles
    /\ pp_valuation \in {2, MaxMonth + 1}
    /\ pp_prep = NoValue /\ pp_matrices = NoValue /\ pp_cure = NoValue
    /\ StagingIdle /\ PipelineIdle /\ ConvertIdle /\ ProjectIdle /\ LoanIdle /\ BookIdle

IsPrep(x) == x # NoValue /\ x.kind = "prep"

CallDataPrep ==
    /\ pp_prep = NoValue
    /\ \E ms \in {2, 3, 4} : pp_prep' = data_prep(pp_data, ms, pp_valuation)
    /\ UNCHANGED <<pp_data, pp_valuation, pp_matrices, pp_cure>>
    /\ UNCHANGED <<stagingVars, pipelineVars, convertVars, projectVars, loanVars, bookVars>>

CallBaseMatrices ==
    /\ IsPrep(pp_prep) /\ pp_matrices = NoValue
    /\ pp_matrices' = base_matrices(pp_prep.pd_data)
    /\ UNCHANGED <<pp_data, pp_valuation, pp_prep, pp_cure>>
    /\ UNCHANGED <<stagingVars, pipelineVars, convertVars, projectVars, loanVars, bookVars>>

\* cure_rate on the prepared rows: cr_rr of lines 152-171 and the curves of
\* lines 173-186 for a horizon of two entries
CallPrepCureRate ==
    /\ IsPrep(pp_prep) /\ pp_matrices # NoValue /\ pp_cure = NoValue
    /\ pp_cure' =
         [kind   |-> "cure",
          cr_rr  |-> cure_matrices(pp_prep.pd_data),
          curves |-> cure_rate([seg \in {r.loan_type : r \in pp_prep.pd_data} |->
                                   cure_balances({r \in pp_prep.pd_data : r.loan_type = seg})],
                               2, pp_prep.period)]
    /\ UNCHANGED <<pp_data, pp_valuation, pp_prep, pp_matrices>>
    /\ UNCHANGED <<stagingVars, pipelineVars, convertVars, projectVars, loanVars, bookVars>>

NextPrep == CallDataPrep \/ CallBaseMatrices \/ CallPrepCureRate

SpecPrep == InitPrep /\ [][NextPrep]_vars

PrepTypeOK == pp_valuation \in {2, MaxMonth + 1}

-----------------------------------------------------------------------------
(***************************************************************************)
(* C12: base_matrices                                                      *)
(***************************************************************************)
\* the prepared rows of one (segment, current stage) pair that have a next observation
PairRows(seg, cs) ==
    {r \in pp_prep.pd_data :
        r.loan_type = seg /\ r.current_stage = cs /\ r.next_stage # "exit"}

\* row i of segment seg holds the balance shares of the pair and sums to 1
BalanceShares(seg, i) ==
    LET pair == PairRows(seg, pp_matrices.rows[i])
        M    == pp_matrices.m[seg]
    IN  /\ SumOver(pair, "out_balance") # 0
        /\ \A j \in 1..Len(pp_matrices.cols) :
              Entry(M, i, j) =
                  Rat(SumOver({r \in pair : r.next_stage = pp_matrices.cols[j]}, "out_balance"),
                      SumOver(pair, "out_balance"))
        /\ RowSum(M, i) = M.d

-----------------------------------------------------------------------------
(***************************************************************************)
(* C13: the observation period                                             *)
(***************************************************************************)
\* the most frequent values of a sequence of gaps
Modes(diffs) ==
    LET count(g) == Cardinality({i \in DOMAIN diffs : diffs[i] = g})
    IN  {g \in Range(diffs) : \A h \in Range(diffs) : count(g) >= count(h)}

\* C13: the period that links an observation to its successor is the mode of
\* the gaps between successive observation dates snapped to the nearest of
\* 1, 3, 6 and 12 months, for every set of observation dates (when several
\* gaps are equally frequent, any of them may be the mode)
C13_PeriodIsModeOfGaps ==
    IsPrep(pp_prep) /\ Cardinality({o.date : o \in pp_data}) > 1 =>
        pp_prep.period \in
            {closest_period(Rat(100 * g, 3044)) :
                g \in Modes(date_diffs(SortSet({o.date : o \in pp_data})))}

-----------------------------------------------------------------------------
(***************************************************************************)
(* C14: the cure and recovery matrix                                       *)
(***************************************************************************)
\* the defaulted rows of a segment: balance cured, recovered, and still in
\* stage_3 at the next observation
DefaultedBalances(seg) ==
    LET defaulted == {r \in pp_prep.pd_data :
                         r.loan_type = seg /\ r.current_stage = "stage_3"}
    IN  <<SumOver({r \in defaulted : r.cures = "cured"}, "out_balance"),
          SumOver(defaulted, "exit_recoveries") + SumOver(defaulted, "cash_recoveries"),
          SumOver({r \in defaulted : r.next_stage = "stage_3"}, "out_balance")>>

\* C14: for every segment cr_rr is a 3x3 matrix with identity rows 0 and 1 and
\* row 2 = (balance cured, recovery, balance remaining in stage_3) over their
\* sum, a valid probability row even for a segment with no defaulted balance
C14_CureMatrix ==
    pp_cure # NoValue =>
        \A seg \in DOMAIN pp_cure.cr_rr :
            LET M == pp_cure.cr_rr[seg]
                w == DefaultedBalances(seg)
            IN  /\ NRows(M) = 3 /\ NCols(M) = 3
                /\ M.nr = {}
                /\ M.n[1] = <<M.d, 0, 0>> /\ M.n[2] = <<0, M.d, 0>>
                /\ \A j \in 1..3 : M.n[3][j] >= 0
                /\ RowSum(M, 3) = M.d
                /\ \A j \in 1..3 : M.n[3][j] * (w[1] + w[2] + w[3]) = w[j] * M.d

\* the part of C14 about a segment with no defaulted balance
C14_ValidWithoutDefaults ==
    pp_cure # NoValue =>
        \A seg \in DOMAIN pp_cure.cr_rr :
            DefaultedBalances(seg) = <<0, 0, 0>> => pp_cure.cr_rr[seg].nr = {}

\* the part of C14 about the third entry, for segments with defaulted balance
C14_RemainingInDefault ==
    pp_cure # NoValue =>
        \A seg \in DOMAIN pp_cure.cr_rr :
            LET M == pp_cure.cr_rr[seg]
                w == DefaultedBalances(seg)
            IN  w[1] + w[2] + w[3] > 0 =>
                    /\ M.nr = {}
                    /\ \A j \in 1..3 : M.n[3][j] * (w[1] + w[2] + w[3]) = w[j] * M.d

-----------------------------------------------------------------------------
(***************************************************************************)
(* ExposureAtDefault: ecl_module.py 13-179.  Money is counted in mills     *)
(* (thousandths of a currency unit): the code rounds every amount to two   *)
(* decimals and adds 0.001 to a closing payment.  Rates are fractions.     *)
(* The valuation date is 2023-12-31; a loan is given by its days to        *)
(* maturity and its age in days at that date.                              *)
(***************************************************************************)
\* round(a / b) for b > 0, halves to the even neighbour
RoundDiv(a, b) ==
    LET q == a \div b
        r == a - q * b
    IN  IF 2 * r > b THEN q + 1
        ELSE IF 2 * r < b THEN q
        ELSE IF q % 2 = 0 THEN q ELSE q + 1

\* round(x, 2) of the amount num/den mills, in mills
Round2(num, den) == 10 * RoundDiv(num, 10 * den)

RECURSIVE PowR(_, _)
PowR(b, e) == IF e = 0 THEN 1 ELSE b * PowR(b, e - 1)

Pow(b, e) == PowR(b, e)

\* abs(round(npf.pmt(rate, nper, pv), 2)) in mills: pv / nper at rate 0, else
\* pv * rate * (1 + rate)^nper / ((1 + rate)^nper - 1)
pmt(rate, nper, pv) ==
    IF rate.n = 0 THEN Round2(pv, nper)
    ELSE LET up == Pow(rate.d + rate.n, nper)
         IN  Round2(pv * rate.n * up, rate.d * (up - Pow(rate.d, nper)))

\* lines 61, 69-70: a maturity that is not after the valuation date is replaced
\* by valuation_date + MonthEnd(12) = 2024-12-31
DaysToMaturity(loan) ==
    IF loan.days_to_maturity > 0 THEN loan.days_to_maturity ELSE 366

\* round(payment_frequency * days / 365.25)
PaymentsIn(payment_frequency, days) == RoundDiv(payment_frequency * days * 4, 1461)

\* __init__, lines 56-82; the ValueError of line 82 is raised after the other
\* attributes are computed
ExposureAtDefault(loan) ==
    LET payment_frequency == MaxOf(12, loan.payment_frequency)
        periodic_rate     == Rat(loan.interest_rate, payment_frequency)
        total_num_payments ==
            PaymentsIn(payment_frequency, DaysToMaturity(loan) + loan.age_days)
    IN  IF payment_frequency \notin 0..12 THEN Raised("ValueError")
        ELSE [kind                |-> "ead",
              loan_type           |-> loan.loan_type,
              disbursed_amount    |-> loan.disbursed_amount,
              outstanding_balance |-> loan.outstanding_balance,
              interest_rate       |-> loan.interest_rate,
              payment_frequency   |-> payment_frequency,
              periodic_rate       |-> periodic_rate,
              num_payments        |->
                  MaxOf(1, PaymentsIn(payment_frequency, DaysToMaturity(loan))),
              total_num_payments  |-> total_num_payments,
              stage               |-> EAD_staging_map(loan.dpd, loan.matrix_size),
              pthly_payment       |->
                  pmt(periodic_rate, total_num_payments, loan.disbursed_amount),
              eir                 |-> loan.interest_rate,
              cash                |-> loan.cash]

MinOf(a, b) == IF a <= b THEN a ELSE b

\* lines 139-145
MaxCounts(ead) ==
    IF ead.stage = "stage_1" THEN MinOf(12, ead.num_payments)
    ELSE IF ead.stage = "stage_2" THEN ead.num_payments
    ELSE 1

\* the pass without the closing adjustment of lines 149-150
AmortStep_without_cap(ead, s) ==
    LET n == ead.periodic_rate.n
        d == ead.periodic_rate.d
        payment == s.payment
        pay_month == s.counter % (12 \div ead.payment_frequency) = 0
        interest == Round2(s.amount * n, d)
    IN  [amount    |-> IF pay_month THEN Round2(s.amount * (d + n) - payment * d, d)
                       ELSE Round2(s.amount * (d + n), d),
         payment   |-> payment,
         counter   |-> s.counter + 1,
         amortization_schedule |->
             Append(s.amortization_schedule,
                    IF pay_month THEN Round2(s.amount * (d + n) - payment * d, d)
                    ELSE Round2(s.amount * (d + n), d)),
         payment_schedule   |-> Append(s.payment_schedule, IF pay_month THEN payment ELSE 0),
         interest_schedule  |-> Append(s.interest_schedule, interest),
         principal_schedule |->
             Append(s.principal_schedule,
                    IF pay_month THEN Round2(payment - interest, 1) ELSE 0)]

\* one pass of the loop of lines 147-166; s holds the locals
AmortStep(ead, s) ==
    LET n == ead.periodic_rate.n
        d == ead.periodic_rate.d
        payment == IF s.payment > s.amount
                   THEN Round2(s.amount * (d + n), d) + 1 ELSE s.payment
        pay_month == s.counter % (12 \div ead.payment_frequency) = 0
        interest == Round2(s.amount * n, d)
    IN  [amount    |-> IF pay_month THEN Round2(s.amount * (d + n) - payment * d, d)
                       ELSE Round2(s.amount * (d + n), d),
         payment   |-> payment,
         counter   |-> s.counter + 1,
         amortization_schedule |->
             Append(s.amortization_schedule,
                    IF pay_month THEN Round2(s.amount * (d + n) - payment * d, d)
                    ELSE Round2(s.amount * (d + n), d)),
         payment_schedule   |-> Append(s.payment_schedule, IF pay_month THEN payment ELSE 0),
         interest_schedule  |-> Append(s.interest_schedule, interest),
         principal_schedule |->
             Append(s.principal_schedule,
                    IF pay_month THEN Round2(payment - interest, 1) ELSE 0)]

RECURSIVE AmortLoop(_, _)
AmortLoop(ead, s) ==
    IF RoundDiv(s.amount, 1000) > 0 /\ s.counter <= MaxCounts(ead)
    THEN AmortLoop(ead, AmortStep(ead, s))
    ELSE s

Front(s) == SubSeq(s, 1, Len(s) - 1)

\* the level payment of line 136
level_payment(ead) == pmt(ead.periodic_rate, ead.num_payments, ead.outstanding_balance)

\* amortization, lines 119-179: the frame drops the last entry of every list;
\* projected is the list amortization_schedule before that cut
amortization(ead) ==
    With(AmortLoop(ead, [amount    |-> ead.outstanding_balance,
                         payment   |-> level_payment(ead),
                         counter   |-> 1,
                         amortization_schedule |-> <<ead.outstanding_balance>>,
                         payment_schedule      |-> <<0>>,
                         interest_schedule     |-> <<0>>,
                         principal_schedule    |-> <<0>>]), LAMBDA s :
      [kind      |-> "schedule",
       EAD       |-> Front(s.amortization_schedule),
       Payment   |-> Front(s.payment_schedule),
       Interest  |-> Front(s.interest_schedule),
       Principal |-> Front(s.principal_schedule),
       projected |-> s.amortization_schedule,
       paid      |-> s.payment_schedule,
       payment   |-> level_payment(ead)])

-----------------------------------------------------------------------------
(***************************************************************************)
(* LossGivenDefault: ecl_module.py 181-267, for a loan whose only          *)
(* collateral is cash (realised at once, no haircut, 1% cost).  A curve is *)
(* a sequence of fractions; the exposure is [scalar, values]: the slice of  *)
(* the EAD column, or with scalar = TRUE its first entry alone (stage_3).   *)
(***************************************************************************)
RatMul(a, b) ==
    IF ~ IsNum(a) \/ ~ IsNum(b) THEN NaN ELSE Rat(a.n * b.n, a.d * b.d)

\* Series.clip(0, 1)
clip01(x) ==
    IF ~ IsNum(x) THEN x
    ELSE IF x.n < 0 THEN Rat(0, 1)
    ELSE IF x.n > x.d THEN Rat(1, 1)
    ELSE x

\* dcv_loan, lines 228-235: cash * (1 - 0) * (1 + eir)^(-0/12) - 0.01 * cash,
\* the other collateral values being 0; in mills
dcv_loan(ead) == Rat(99 * ead.cash, 100)

\* __init__, lines 183-226
lgd_init(ead, amort, cure_rate_df, recovery_rate_df) ==
    IF ead.loan_type \notin DOMAIN cure_rate_df THEN Raised("KeyError")
    ELSE IF recovery_rate_df # NoValue /\ ead.loan_type \notin DOMAIN recovery_rate_df
    THEN Raised("KeyError")
    ELSE LET cure_curve == cure_rate_df[ead.loan_type]
             max_amort_length == MinOf(Len(amort.EAD), Len(cure_curve))
         IN  IF ead.stage = "stage_3" /\ Len(amort.EAD) = 0 THEN Raised("IndexError")
             ELSE [kind          |-> "lgd",
                   stage         |-> ead.stage,
                   cure_rate     |-> cure_curve,
                   recovery_rate |-> IF recovery_rate_df = NoValue THEN NoValue
                                     ELSE recovery_rate_df[ead.loan_type],
                   max_amort_length |-> max_amort_length,
                   ead           |->
                       IF ead.stage = "stage_1"
                       THEN [scalar |-> FALSE,
                             values |-> SubSeq(amort.EAD, 1, MinOf(12, max_amort_length))]
                       ELSE IF ead.stage = "stage_3"
                       THEN [scalar |-> TRUE, values |-> <<amort.EAD[1]>>]
                       ELSE [scalar |-> FALSE,
                             values |-> SubSeq(amort.EAD, 1, max_amort_length)],
                   total_dcv     |-> dcv_loan(ead)]

shortfall_ratio_without_epsilon(ead_t, total_dcv) ==
    Rat(ead_t * total_dcv.d - total_dcv.n, total_dcv.d * ead_t)

\* (ead - total_dcv) / (ead + epsilon) with epsilon = 1e-5, a hundredth of a mill
shortfall_ratio(ead_t, total_dcv) ==
    Rat(100 * (ead_t * total_dcv.d - total_dcv.n), total_dcv.d * (100 * ead_t + 1))

OneMinus(x) == RatSub(Rat(1, 1), x)

lgd_value_unclipped(ead_t, total_dcv, cure_t, recovery_t) ==
    RatMul(RatMul(shortfall_ratio(ead_t, total_dcv), OneMinus(cure_t)),
           IF recovery_t = NoValue THEN Rat(1, 1) ELSE OneMinus(recovery_t))

\* lines 241-245 and 254-258: the clip is the last step
lgd_value(ead_t, total_dcv, cure_t, recovery_t) ==
    clip01(RatMul(RatMul(shortfall_ratio(ead_t, total_dcv), OneMinus(cure_t)),
                  IF recovery_t = NoValue THEN Rat(1, 1) ELSE OneMinus(recovery_t)))

lgd_value_clip_first(ead_t, total_dcv, cure_t, recovery_t) ==
    RatMul(RatMul(clip01(shortfall_ratio(ead_t, total_dcv)), OneMinus(cure_t)),
           IF recovery_t = NoValue THEN Rat(1, 1) ELSE OneMinus(recovery_t))

\* lgd_schedule, lines 237-267: len() of the scalar exposure raises TypeError
\* and the except branch builds a single row from the first curve entries; a
\* recovery curve shorter than the exposure gives columns of unequal length
lgd_schedule(l) ==
    IF l.ead.scalar
    THEN IF Len(l.cure_rate) = 0
            \/ (l.recovery_rate # NoValue /\ Len(l.recovery_rate) = 0)
         THEN Raised("IndexError")
         ELSE [kind |-> "lgd_df",
               LGD  |-> <<lgd_value(l.ead.values[1], l.total_dcv, l.cure_rate[1],
                                    IF l.recovery_rate = NoValue THEN NoValue
                                    ELSE l.recovery_rate[1])>>,
               Cure_Rate |-> <<l.cure_rate[1]>>,
               Total_DCV |-> l.total_dcv]
    ELSE IF l.recovery_rate # NoValue /\ Len(l.recovery_rate) < Len(l.ead.values)
    THEN Raised("ValueError")
    ELSE [kind |-> "lgd_df",
          LGD  |-> [t \in 1..Len(l.ead.values) |->
                      lgd_value(l.ead.values[t], l.total_dcv, l.cure_rate[t],
                                IF l.recovery_rate = NoValue THEN NoValue
                                ELSE l.recovery_rate[t])],
          Cure_Rate |-> SubSeq(l.cure_rate, 1, Len(l.ead.values)),
          Total_DCV |-> l.total_dcv]

-----------------------------------------------------------------------------
(***************************************************************************)
(* SpecLoan: one loan of the book is turned into an ExposureAtDefault, its *)
(* amortization schedule and its LGD schedule (create_ead_instance and     *)
(* create_lgd_instance).                                                   *)
(***************************************************************************)
Half == Rat(1, 2)

LoanInputs ==
    {l \in [loan_type           : {"A"},
            outstanding_balance : {0, 1000, 100000, 200000},
            disbursed_amount    : {300000},
            days_to_maturity    : {0 - 10, 30, 91, 396},
            age_days            : {0, 365},
            dpd                 : {0, 45, 75, MaxDpd},
            matrix_size         : {3, 4},
            payment_frequency   : {1, 4, 12, 13},
            interest_rate       : {0, 12},
            cash                : {0 - 100000, 0, 100000}] :
        l.interest_rate = 0 \/ (l.age_days = 0 /\ l.days_to_maturity <= 91)}

\* a curve of 14 months without cures or recoveries
ZeroCurve == [t \in 1..14 |-> Rat(0, 1)]

\* curves of 1, 2 and 14 months
CureCurves ==
    {<<Half>>, <<Half, Rat(0, 1)>>,
     [t \in 1..14 |-> IF t % 2 = 1 THEN Rat(0, 1) ELSE Half], ZeroCurve}

RecoveryCurves ==
    {NoValue, [t \in 1..14 |-> IF t % 3 = 1 THEN Half ELSE Rat(0, 1)], ZeroCurve}

InitLoan ==
    /\ ln_loan \in LoanInputs
    /\ ln_ead = NoValue /\ ln_amort = NoValue /\ ln_curves = NoValue /\ ln_lgd = NoValue
    /\ ln_pds = NoValue /\ ln_ecl = NoValue
    /\ StagingIdle /\ PipelineIdle /\ ConvertIdle /\ ProjectIdle /\ PrepIdle /\ BookIdle

IsEad(x) == x # NoValue /\ x.kind = "ead"

IsSchedule(x) == x # NoValue /\ x.kind = "schedule"

create_ead_instance ==
    /\ ln_ead = NoValue
    /\ ln_ead' = ExposureAtDefault(ln_loan)
    /\ UNCHANGED <<ln_loan, ln_amort, ln_curves, ln_lgd, ln_pds, ln_ecl>>
    /\ UNCHANGED <<stagingVars, pipelineVars, convertVars, projectVars, prepVars, bookVars>>

ReadAmortization ==
    /\ IsEad(ln_ead) /\ ln_amort = NoValue
    /\ ln_amort' = amortization(ln_ead)
    /\ UNCHANGED <<ln_loan, ln_ead, ln_curves, ln_lgd, ln_pds, ln_ecl>>
    /\ UNCHANGED <<stagingVars, pipelineVars, convertVars, projectVars, prepVars, bookVars>>

create_lgd_instance ==
    /\ IsSchedule(ln_amort) /\ ln_lgd = NoValue
    /\ \E cure \in CureCurves, recovery \in RecoveryCurves :
          /\ ln_curves' = [cure_rate |-> cure, recovery_rate |-> recovery]
          /\ With(lgd_init(ln_ead, ln_amort, [A |-> cure],
                           IF recovery = NoValue THEN NoValue ELSE [A |-> recovery]),
                  LAMBDA l : ln_lgd' = IF IsRaised(l) THEN l
                                       ELSE [kind |-> "lgd_instance", lgd |-> l,
                                             lgd_schedule |-> lgd_schedule(l)])
    /\ UNCHANGED <<ln_loan, ln_ead, ln_amort, ln_pds, ln_ecl>>
    /\ UNCHANGED <<stagingVars, pipelineVars, convertVars, projectVars, prepVars, bookVars>>

\* PD * ead * lgd * (1 + eir)^(-n/12), kept as its four factors: the discount
\* factor is irrational for most rates
Discounted(pd_t, ead_t, lgd_t, n) ==
    [pd |-> pd_t, ead |-> ead_t, lgd |-> lgd_t, months |-> n]

\* lines 341-346: the PD column of the loan, cut to num entries
pd_of_own_stage_frame(stg, loan_type, stage1_pds, stage2_pds, num) ==
    IF stg = "stage_1"
    THEN (IF loan_type \in DOMAIN stage1_pds
          THEN SubSeq(stage1_pds[loan_type], 1, MinOf(num, Len(stage1_pds[loan_type])))
          ELSE Raised("KeyError"))
    ELSE IF stg = "stage_2"
    THEN (IF loan_type \in DOMAIN stage2_pds
          THEN SubSeq(stage2_pds[loan_type], 1, MinOf(num, Len(stage2_pds[loan_type])))
          ELSE Raised("KeyError"))
    ELSE [t \in 1..num |-> Rat(1, 1)]

\* the number of rows of a frame
Shape0(frame) ==
    IF DOMAIN frame = {} THEN 0 ELSE Len(frame[CHOOSE c \in DOMAIN frame : TRUE])

\* calculate_single_loan_ecl, lines 332-371, on the schedules of the loan; the
\* frame of line 371 needs columns of equal length
single_loan_ecl(stg, loan_type, amortization_schedule, lgd_df, stage1_pds, stage2_pds) ==
    LET max_pd_length == Shape0(stage2_pds)
        num == MinOf(Len(amortization_schedule.EAD), MinOf(max_pd_length, Len(lgd_df.LGD)))
    IN  IF \/ stg = "stage_1" /\ loan_type \notin DOMAIN stage1_pds
           \/ stg = "stage_2" /\ loan_type \notin DOMAIN stage2_pds
        THEN Raised("KeyError")
        ELSE
        With(pd_of_own_stage_frame(stg, loan_type, stage1_pds, stage2_pds, num), LAMBDA PD :
          IF Len(PD) # num THEN Raised("ValueError")
          ELSE [kind |-> "loan_ecl",
                Stage |-> stg,
                ECL |-> [t \in 1..num |->
                           Discounted(PD[t], amortization_schedule.EAD[t], lgd_df.LGD[t], t)],
                EAD |-> SubSeq(amortization_schedule.EAD, 1, num),
                PD  |-> PD,
                LGD |-> SubSeq(lgd_df.LGD, 1, num)])

\* marginal PD curves as extract_pds returns them: 12 entries for the first
\* origin stage, mult_len - 1 entries for the second
PdCurve(len, shift) == [t \in 1..len |-> Rat(1, t + shift)]

PdFrames ==
    {[stage1_pds |-> [A |-> PdCurve(12, 1)], stage2_pds |-> [A |-> PdCurve(mult_len - 1, 20)]] :
        mult_len \in {4, 15}}

IsLgdInstance(x) == x.kind = "lgd_instance" /\ x.lgd_schedule.kind = "lgd_df"

CalcLoanEcl ==
    /\ ln_lgd # NoValue /\ IsLgdInstance(ln_lgd) /\ ln_ecl = NoValue
    /\ \E frames \in PdFrames :
          /\ ln_pds' = frames
          /\ ln_ecl' = single_loan_ecl(ln_ead.stage, ln_ead.loan_type, ln_amort,
                                       ln_lgd.lgd_schedule, frames.stage1_pds, frames.stage2_pds)
    /\ UNCHANGED <<ln_loan, ln_ead, ln_amort, ln_curves, ln_lgd>>
    /\ UNCHANGED <<stagingVars, pipelineVars, convertVars, projectVars, prepVars, bookVars>>

NextLoan ==
    create_ead_instance \/ ReadAmortization \/ create_lgd_instance \/ CalcLoanEcl

SpecLoan == InitLoan /\ [][NextLoan]_vars

LoanTypeOK == ln_loan \in LoanInputs

-----------------------------------------------------------------------------
(***************************************************************************)
(* C15: the length of the amortization schedule                            *)
(***************************************************************************)
\* round(payment_frequency x years to maturity), floored at 1, with the
\* payment frequency given for the loan
remaining_payments ==
    MaxOf(1, PaymentsIn(ln_loan.payment_frequency, DaysToMaturity(ln_loan)))

\* C15: the schedule has at most min(12, remaining_payments) periods for a
\* stage_1 loan, at most remaining_payments for a stage_2 loan and exactly 1
\* for a stage_3 loan
C15_StageCaps ==
    IsSchedule(ln_amort) =>
        LET periods == Len(ln_amort.EAD)
        IN  /\ ln_ead.stage = "stage_1" => periods <= MinOf(12, remaining_payments)
            /\ ln_ead.stage \in {"stage_2", "stage_2a", "stage_2b"}
                   => periods <= remaining_payments
            /\ ln_ead.stage = "stage_3" => periods = 1

\* the same for loans paid monthly, where remaining_payments is the code's
\* num_payments
C15_StageCapsMonthly ==
    IsSchedule(ln_amort) /\ ln_loan.payment_frequency = 12 => C15_StageCaps

-----------------------------------------------------------------------------
(***************************************************************************)
(* C16: the level payment                                                  *)
(***************************************************************************)
\* C16: the level payment of the amortization projection is the annuity
\* payment of the original disbursed amount over the total number of payments
\* of the loan, for every loan
C16_PaymentFromDisbursedAmount ==
    IsSchedule(ln_amort) =>
        ln_amort.payment =
            pmt(ln_ead.periodic_rate, ln_ead.total_num_payments, ln_loan.disbursed_amount)

-----------------------------------------------------------------------------
(***************************************************************************)
(* C17: the payment frequency                                              *)
(***************************************************************************)
\* C17: for a payment_frequency f in 1..12 the periodic rate is annual_rate / f
\* and a payment is made only in every (12/f)-th projected month: there the
\* balance becomes balance x (1 + rate) - payment and principal = payment -
\* interest; in every other month payment and principal are 0 and the balance
\* only compounds
C17_PaymentFrequency ==
    IsSchedule(ln_amort) /\ ln_loan.payment_frequency \in 1..12 =>
        LET f    == ln_loan.payment_frequency
            rate == Rat(ln_loan.interest_rate, f)
        IN  /\ ln_ead.periodic_rate = rate
            /\ \A k \in 2..Len(ln_amort.EAD) :
                  LET compounded == ln_amort.EAD[k - 1] * (rate.d + rate.n)
                  IN  IF (k - 1) % (12 \div f) = 0
                      THEN /\ ln_amort.EAD[k] =
                                Round2(compounded - ln_amort.Payment[k] * rate.d, rate.d)
                           /\ ln_amort.Principal[k] =
                                Round2(ln_amort.Payment[k] - ln_amort.Interest[k], 1)
                      ELSE /\ ln_amort.Payment[k] = 0
                           /\ ln_amort.Principal[k] = 0
                           /\ ln_amort.EAD[k] = Round2(compounded, rate.d)

\* the same for monthly loans only
C17_MonthlyLoans ==
    IsSchedule(ln_amort) /\ ln_loan.payment_frequency = 12 => C17_PaymentFrequency

-----------------------------------------------------------------------------
(***************************************************************************)
(* C18: loans at 0% interest                                               *)
(***************************************************************************)
\* C18: at 0% interest the projected balances strictly decrease from one
\* payment month to the next and reach 0 exactly at the num_payments-th
\* payment month; stated for loans with a balance whose stage does not cut the
\* projection short
C18_ZeroRateReachesZero ==
    /\ IsSchedule(ln_amort)
    /\ ln_loan.interest_rate = 0 /\ ln_loan.outstanding_balance > 0
    /\ MaxCounts(ln_ead) = ln_ead.num_payments
    => LET p == ln_amort.projected
           n == ln_ead.num_payments
       IN  /\ \A i \in 1..(Len(p) - 1) : p[i + 1] < p[i]
           /\ Len(p) = n + 1
           /\ p[n + 1] = 0
           /\ \A i \in 1..MinOf(n, Len(p)) : p[i] > 0

-----------------------------------------------------------------------------
(***************************************************************************)
(* C19, C20: the LGD schedule                                              *)
(***************************************************************************)
IsLgdSchedule(x) ==
    x.kind = "lgd_instance" /\ x.lgd_schedule.kind = "lgd_df"

RecoveryAt(t) ==
    IF ln_curves.recovery_rate = NoValue THEN NoValue ELSE ln_curves.recovery_rate[t]

\* C19: lgd[t] = clip((ead[t] - total_dcv) / (ead[t] + 1e-5), 0, 1)
\* x (1 - cure_rate[t]) x (1 - recovery_rate[t], or 1 without a recovery
\* curve): the ratio is clipped before the factors are multiplied in, for every
\* ead, total_dcv, cure and recovery value
C19_ClipBeforeFactors ==
    IsLgdSchedule(ln_lgd) =>
        \A t \in 1..Len(ln_lgd.lgd_schedule.LGD) :
            ln_lgd.lgd_schedule.LGD[t] =
                lgd_value_clip_first(ln_amort.EAD[t], dcv_loan(ln_ead),
                                     ln_curves.cure_rate[t], RecoveryAt(t))

\* the values of the schedule lie in [0,1] and entry t is computed from
\* amortization entry t and from entry t of the curves
LgdInRangeAndIndexed ==
    \A t \in 1..Len(ln_lgd.lgd_schedule.LGD) :
        /\ RatLeq(Rat(0, 1), ln_lgd.lgd_schedule.LGD[t])
        /\ RatLeq(ln_lgd.lgd_schedule.LGD[t], Rat(1, 1))
        /\ t <= Len(ln_amort.EAD)
        /\ ln_lgd.lgd_schedule.LGD[t] =
              lgd_value(ln_amort.EAD[t], dcv_loan(ln_ead),
                        ln_curves.cure_rate[t], RecoveryAt(t))

\* C20 as stated: every LGD value lies in [0,1] and the LGD schedule is
\* aligned index by index, one to one, with the loan's amortization entries
C20_LgdAligned ==
    IsLgdSchedule(ln_lgd) =>
        /\ LgdInRangeAndIndexed
        /\ Len(ln_lgd.lgd_schedule.LGD) = Len(ln_amort.EAD)

\* C20 amended: every LGD value lies in [0,1] and the LGD schedule is aligned
\* index by index with the first min(amortization entries, cure-curve entries)
\* amortization entries
C20_LgdAlignedPrefix ==
    IsLgdSchedule(ln_lgd) =>
        /\ LgdInRangeAndIndexed
        /\ Len(ln_lgd.lgd_schedule.LGD) =
              MinOf(Len(ln_amort.EAD), Len(ln_curves.cure_rate))

\* a schedule cut by a cure curve shorter than the amortization schedule, with
\* a collateral value that would put the unclipped value outside [0,1]
C20_Witness ==
    /\ IsLgdSchedule(ln_lgd)
    /\ Len(ln_curves.cure_rate) = 2 /\ Len(ln_amort.EAD) > 2
    /\ Len(ln_lgd.lgd_schedule.LGD) = 2
    /\ ln_loan.cash < 0
    /\ ln_lgd.lgd_schedule.LGD[2] = Rat(1, 1)
    /\ ln_lgd.lgd_schedule.LGD[1] # Rat(1, 1)

-----------------------------------------------------------------------------
(***************************************************************************)
(* C21: the length of the LGD schedule                                     *)
(***************************************************************************)
\* the stated number of entries of the loan's LGD schedule
StatedLgdLength ==
    IF ln_ead.stage = "stage_3" THEN 1
    ELSE MinOf(Len(ln_amort.EAD), Len(ln_curves.cure_rate))

\* C21: once the LossGivenDefault of a loan is built, its LGD schedule has
\* min(len(amortization schedule), len(cure-rate curve)) entries for a loan that
\* is not stage_3 and exactly 1 entry for a stage_3 loan
C21_LgdLength ==
    ln_lgd # NoValue =>
        /\ IsLgdSchedule(ln_lgd)
        /\ Len(ln_lgd.lgd_schedule.LGD) = StatedLgdLength

\* the same for the loans whose LossGivenDefault is built without an exception
C21_LgdLengthWhenBuilt ==
    ln_lgd # NoValue /\ IsLgdSchedule(ln_lgd) =>
        Len(ln_lgd.lgd_schedule.LGD) = StatedLgdLength

-----------------------------------------------------------------------------
(***************************************************************************)
(* C22: no collateral, no cures, no recoveries                             *)
(***************************************************************************)
\* a loan without collateral under curves that are 0 in every period
NothingMitigates ==
    /\ IsLgdSchedule(ln_lgd)
    /\ ln_loan.cash = 0
    /\ ln_curves.cure_rate = ZeroCurve
    /\ ln_curves.recovery_rate # NoValue /\ ln_curves.recovery_rate = ZeroCurve

\* C22 as stated: with zero collateral on every item and cure and recovery
\* rates of 0 in every period, lgd = 1 in every period
C22_LgdIsOne ==
    NothingMitigates =>
        \A t \in 1..Len(ln_lgd.lgd_schedule.LGD) : ln_lgd.lgd_schedule.LGD[t] = Rat(1, 1)

\* C22 amended: under the same conditions lgd[t] = ead[t] / (ead[t] + 1e-5),
\* which is below 1 and not cut by the clip
C22_LgdIsEadOverEadPlusEpsilon ==
    NothingMitigates =>
        \A t \in 1..Len(ln_lgd.lgd_schedule.LGD) :
            /\ ln_lgd.lgd_schedule.LGD[t] =
                  Rat(100 * ln_amort.EAD[t], 100 * ln_amort.EAD[t] + 1)
            /\ ln_lgd.lgd_schedule.LGD[t] # Rat(1, 1)
            /\ RatLeq(ln_lgd.lgd_schedule.LGD[t], Rat(1, 1))

\* such a loan with a schedule of several periods
C22_Witness ==
    /\ NothingMitigates
    /\ Len(ln_lgd.lgd_schedule.LGD) >= 3

\* ---------------------------------------------------------------------------
\* C23
\* ---------------------------------------------------------------------------

\* the marginal PD curve of the loan's segment for the loan's own stage
OwnStageCurve ==
    IF ln_ead.stage = "stage_1" THEN ln_pds.stage1_pds[ln_ead.loan_type]
    ELSE ln_pds.stage2_pds[ln_ead.loan_type]

StatedNum ==
    MinOf(Len(ln_amort.EAD), MinOf(Len(OwnStageCurve), Len(ln_lgd.lgd_schedule.LGD)))

EclOfCurveLoan == ln_ecl # NoValue /\ ln_ead.stage \in {"stage_1", "stage_2"}

\* C23: the ECL frame of a stage_1 or stage_2 loan has exactly
\* num = min(len(ead), len(pd_curve), len(lgd)) entries, pd_curve being the
\* curve of the loan's own stage, and entry t is pd[t] x ead[t] x lgd[t]
\* discounted over t months, the inputs paired by position.
C23_EclEntries ==
    EclOfCurveLoan =>
        /\ ln_ecl.kind = "loan_ecl"
        /\ Len(ln_ecl.ECL) = StatedNum
        /\ \A t \in 1..StatedNum :
              ln_ecl.ECL[t] = Discounted(OwnStageCurve[t], ln_amort.EAD[t],
                                         ln_lgd.lgd_schedule.LGD[t], t)

\* the same statement for the loans whose stage-2 frame is not shorter than
\* the curve of their own stage
C23_EclEntriesLongStage2Frame ==
    EclOfCurveLoan /\ Shape0(ln_pds.stage2_pds) >= Len(OwnStageCurve) => C23_EclEntries

\* ---------------------------------------------------------------------------
\* C30
\* ---------------------------------------------------------------------------

\* the loan has more than one payment left and its balance is not paid off by
\* the first one
MoreThanOnePeriodLeft ==
    /\ ln_ead.num_payments > 1
    /\ Len(ln_amort.projected) >= 2
    /\ RoundDiv(ln_amort.projected[2], 1000) > 0

\* the PD column is the head of a marginal PD curve of the loan's segment
PdFromSegmentCurve ==
    \E frame \in {ln_pds.stage1_pds, ln_pds.stage2_pds} :
        /\ Len(ln_ecl.PD) <= Len(frame[ln_ead.loan_type])
        /\ ln_ecl.PD = SubSeq(frame[ln_ead.loan_type], 1, Len(ln_ecl.PD))

EclBuilt == ln_ecl # NoValue /\ ln_ecl.kind = "loan_ecl"

\* C30: a loan whose stage is not stage_3 (stage_1, stage_2, stage_2a, stage_2b)
\* is projected over more than one period when it has more than one period
\* left, and its ECL uses a marginal PD curve of its segment, not PD = 1.
C30_OnlyStage3SinglePeriod ==
    EclBuilt /\ ln_ead.stage # "stage_3" =>
        /\ MoreThanOnePeriodLeft => Len(ln_amort.EAD) > 1
        /\ PdFromSegmentCurve

\* the same for the stages of matrix_size 3
C30_ThreeStageLoans ==
    EclBuilt /\ ln_ead.stage \in {"stage_1", "stage_2"} => C30_OnlyStage3SinglePeriod

\* ---------------------------------------------------------------------------
\* C28
\* ---------------------------------------------------------------------------

\* the number of passes of the loop of line 147
Passes == Len(ln_amort.projected) - 1

\* pass i starts from a balance smaller than the scheduled payment
Overpays(i) == ln_amort.payment > ln_amort.projected[i]

\* balance x (1 + periodic_rate), to the cent, plus the buffer of 0.001
CappedPayment(balance) ==
    Round2(balance * (ln_ead.periodic_rate.d + ln_ead.periodic_rate.n),
           ln_ead.periodic_rate.d) + 1

\* C28: the projection ends after at most max_counts passes, and before that
\* exactly when the balance rounds to 0 or less; a pass whose scheduled payment
\* exceeds the balance pays balance x (1 + periodic_rate) plus the buffer and
\* leaves a balance that rounds to 0 or less; every balance of the returned
\* schedule is positive.
C28_AmortizationTerminates ==
    IsSchedule(ln_amort) =>
        /\ Passes <= MaxCounts(ln_ead)
        /\ Passes < MaxCounts(ln_ead)
               => RoundDiv(ln_amort.projected[Passes + 1], 1000) <= 0
        /\ \A i \in 1..Passes :
              /\ RoundDiv(ln_amort.projected[i], 1000) > 0
              /\ Overpays(i) =>
                    /\ ln_amort.paid[i + 1] = CappedPayment(ln_amort.projected[i])
                    /\ RoundDiv(ln_amort.projected[i + 1], 1000) <= 0
                    /\ i = Passes
        /\ Len(ln_amort.EAD) = Passes
        /\ \A i \in 1..Len(ln_amort.EAD) : ln_amort.EAD[i] > 0

\* a schedule of three passes whose last pass pays the capped payment
C28_Witness ==
    /\ IsSchedule(ln_amort)
    /\ Passes = 3
    /\ Overpays(3)
    /\ ~ Overpays(1)

\* ---------------------------------------------------------------------------
\* C26
\* ---------------------------------------------------------------------------

\* C26: extract_pds and cure_rate called with mult_len <= 0 raise an error
\* instead of returning curves.
C26_NonPositiveHorizonRejected ==
    mx_mult_len <= 0 =>
        /\ mx_pds # NoValue => IsRaised(mx_pds)
        /\ mx_cure # NoValue => IsRaised(mx_cure)

\* what the two functions return for mult_len <= 0: 12 entries for the first
\* origin stage, no entry for the later ones, no cure or recovery rate
C26_EmptyCurves ==
    mx_mult_len <= 0 =>
        /\ mx_pds # NoValue /\ ~ IsRaised(mx_pds) =>
              \A seg \in Segments(mx_monthly) : \A stg \in DOMAIN mx_pds.marginal :
                  Len(mx_pds.marginal[stg][seg]) = (IF stg = 0 THEN PdHorizon ELSE 0)
        /\ mx_cure # NoValue =>
              \A seg \in DOMAIN mx_cure.cure_df :
                  mx_cure.cure_df[seg] = <<>> /\ mx_cure.recovery_df[seg] = <<>>

-----------------------------------------------------------------------------
(***************************************************************************)
(* SpecConfig: the four operations that take a matrix_size, each called     *)
(* once with the same matrix_size on inputs of its own.                     *)
(***************************************************************************)
\* one account seen at any set of the first two month ends
ConfigFiles == {{Obs(1, d, "A", 0, 1) : d \in D} : D \in SUBSET (1..2)}

\* every stage moves on to the next one
NextStageRows(ms) == [i \in 1..(ms - 1) |-> UnitRow(ms, i + 1, 1)]

ConfigFrames ==
    {FrameOf(x[1], 1, NextStageRows(x[1]), NextStageRows(x[1]),
             IF x[2] THEN <<UnitRow(x[1], 1, 1)>> ELSE <<>>) :
        x \in {3, 4} \X BOOLEAN}

\* the monthly frame handed to extract_pds: absorbing_state on mx_df with the
\* matrix size of the frame
MonthlyInput == absorbing_state(mx_df, Len(mx_df.cols), mx_period)

InitConfig ==
    /\ dpd \in {0, 45, MaxDpd} /\ matrix_size \in MatrixSizes
    /\ stage = None /\ ead_stage = None
    /\ pp_data \in ConfigFiles /\ pp_valuation = 3
    /\ pp_prep = NoValue /\ pp_matrices = NoValue /\ pp_cure = NoValue
    /\ mx_df \in ConfigFrames /\ mx_period = 1
    /\ mx_size = 3 /\ mx_cure_in = NoValue /\ mx_mult_len = 1
    /\ mx_monthly = NoValue /\ mx_pds = NoValue /\ mx_cure = NoValue
    /\ PipelineIdle /\ ConvertIdle /\ LoanIdle /\ BookIdle

ConfigStagingMap ==
    /\ stage = None
    /\ stage' = staging_map(dpd, matrix_size)
    /\ UNCHANGED <<dpd, matrix_size, ead_stage>>
    /\ UNCHANGED <<pipelineVars, convertVars, projectVars, prepVars, loanVars, bookVars>>

ConfigDataPrep ==
    /\ pp_prep = NoValue
    /\ pp_prep' = data_prep(pp_data, matrix_size, pp_valuation)
    /\ UNCHANGED <<pp_data, pp_valuation, pp_matrices, pp_cure>>
    /\ UNCHANGED <<stagingVars, pipelineVars, convertVars, projectVars, loanVars, bookVars>>

ConfigAbsorbingState ==
    /\ mx_monthly = NoValue
    /\ mx_monthly' = absorbing_state(mx_df, matrix_size, mx_period)
    /\ UNCHANGED <<mx_df, mx_size, mx_cure_in, mx_period, mx_mult_len, mx_pds, mx_cure>>
    /\ UNCHANGED <<stagingVars, pipelineVars, convertVars, prepVars, loanVars, bookVars>>

\* a frame with fewer columns than matrix_size has no column matrix_size - 1
\* for line 133
ConfigExtractPds ==
    /\ mx_pds = NoValue
    /\ \E mult_len \in {2, MaxMultLen} :
          /\ mx_mult_len' = mult_len
          /\ mx_pds' = IF matrix_size \in {3, 4} /\ Len(mx_df.cols) < matrix_size
                       THEN Raised("IndexError")
                       ELSE extract_pds(MonthlyInput, matrix_size, mult_len)
    /\ UNCHANGED <<mx_df, mx_size, mx_cure_in, mx_period, mx_monthly, mx_cure>>
    /\ UNCHANGED <<stagingVars, pipelineVars, convertVars, prepVars, loanVars, bookVars>>

NextConfig == ConfigStagingMap \/ ConfigDataPrep \/ ConfigAbsorbingState \/ ConfigExtractPds

SpecConfig == InitConfig /\ [][NextConfig]_vars

\* ---------------------------------------------------------------------------
\* C25
\* ---------------------------------------------------------------------------

ConfigInputs == <<dpd, matrix_size, pp_data, pp_valuation, mx_df, mx_period>>

\* C25: with a matrix_size other than 3 and 4 a call of staging_map, data_prep,
\* absorbing_state or extract_pds ends with the invalid-configuration error
\* (ValueError), returns nothing else and leaves its inputs as they were.
C25_InvalidMatrixSize ==
    [][matrix_size \notin {3, 4} =>
          /\ ConfigInputs' = ConfigInputs
          /\ stage' # stage => stage' = "ValueError"
          /\ pp_prep' # pp_prep => pp_prep' = Raised("ValueError")
          /\ mx_monthly' # mx_monthly => mx_monthly' = Raised("ValueError")
          /\ mx_pds' # mx_pds => mx_pds' = Raised("ValueError")]_vars

\* the four operations were called with an invalid matrix_size on a file with
\* observations
C25_Witness ==
    /\ matrix_size \notin {3, 4}
    /\ pp_data # {}
    /\ stage = "ValueError"
    /\ pp_prep = Raised("ValueError")
    /\ mx_monthly = Raised("ValueError")
    /\ mx_pds = Raised("ValueError")

\* ---------------------------------------------------------------------------
\* C29
\* ---------------------------------------------------------------------------

\* row i of the two matrices holds the same numbers
SameRow(M, N, i, width) == \A j \in 1..width : Entry(M, i, j) = Entry(N, i, j)

\* C29: a call of absorbing_state leaves the caller's frame of base matrices as
\* it was, for every period; with period = 1 every row of the result other than
\* the stage_3 rows equals the caller's row, in every segment.
C29_InputUnchanged ==
    [][mx_monthly' # mx_monthly =>
          /\ mx_df' = mx_df
          /\ IsFrame(mx_monthly') /\ mx_period = 1 =>
                \A seg \in Segments(mx_df) : \A i \in 1..Len(mx_df.rows) :
                    mx_df.rows[i] # "stage_3" =>
                        SameRow(mx_monthly'.m[seg], mx_df.m[seg], i, Len(mx_df.cols))]_vars

\* after a call with period = 1 the caller's frame still holds an empirical
\* stage_3 row that the result has replaced
C29_Witness ==
    /\ IsFrame(mx_monthly) /\ mx_period = 1
    /\ "stage_3" \in Range(mx_df.rows)
    /\ \E seg \in Segments(mx_df) :
          /\ ~ IsUnitRow(mx_df.m[seg], IndexOf(mx_df.rows, "stage_3"), mx_size)
          /\ IsUnitRow(mx_monthly.m[seg], IndexOf(mx_monthly.rows, "stage_3"), mx_size)

-----------------------------------------------------------------------------
(***************************************************************************)
(* SpecBook: a loan book of BookSize accounts goes through                  *)
(* upload_current_loan_book (views.py 253-344) and calculate_ECL (374-422). *)
(* The two parallel_apply calls of lines 278 and 288 run one worker step    *)
(* per loan, in any order; each call returns when every loan is done.       *)
(***************************************************************************)
BookSize == 2

BookAccounts == 1..BookSize

\* lines of the book: performing or defaulted, paid off or not, maturing in
\* one month or in thirteen
BookLoans ==
    {l \in LoanInputs :
        /\ l.matrix_size = MAT_SIZE /\ l.dpd \in {0, MaxDpd}
        /\ l.outstanding_balance \in {0, 100000} /\ l.days_to_maturity \in {30, 396}
        /\ l.payment_frequency = 12 /\ l.interest_rate = 0 /\ l.age_days = 0 /\ l.cash = 0}

\* the curve of CureCurves with 14 months
LongCureCurve == [t \in 1..14 |-> IF t % 2 = 1 THEN Rat(0, 1) ELSE Half]

\* lines 264-275 and 401-402: the tables of the project read by every loan
SharedTables ==
    {[cures      |-> [A |-> c],
      recoveries |-> [A |-> r],
      stage1_pds |-> [A |-> PdCurve(12, 1)],
      stage2_pds |-> [A |-> PdCurve(14, 20)]] :
        c \in {LongCureCurve, ZeroCurve}, r \in {LongCureCurve}}

\* create_ead_instance for one line of the book: reads the line only
ead_worker(loan, shared) ==
    [result |-> ExposureAtDefault(loan), shared |-> shared]

\* a worker that drops the first month of the cure curve it has read
lgd_worker_consuming(ead, shared) ==
    [result |-> With(lgd_init(ead, amortization(ead), shared.cures, shared.recoveries),
                     LAMBDA l : IF IsRaised(l) THEN l
                                ELSE [kind |-> "lgd_instance", lgd |-> l,
                                      lgd_schedule |-> lgd_schedule(l)]),
     shared |-> [shared EXCEPT !.cures = [seg \in DOMAIN shared.cures |->
                                             Tail(shared.cures[seg])]]]

\* create_lgd_instance for one ExposureAtDefault, lines 281-286 and 302: reads
\* the cure and recovery tables; the collateral parameters are built anew in
\* every LossGivenDefault (ecl_module.py 210-219)
lgd_worker(ead, shared) ==
    [result |-> With(lgd_init(ead, amortization(ead), shared.cures, shared.recoveries),
                     LAMBDA l : IF IsRaised(l) THEN l
                                ELSE [kind |-> "lgd_instance", lgd |-> l,
                                      lgd_schedule |-> lgd_schedule(l)]),
     shared |-> shared]

\* DataFrame.to_dict(orient='records'): one record per row
to_records(column) == column

\* pd.DataFrame(records): a frame without columns when there is no record
from_records(records, name) ==
    IF records = <<>> THEN [kind |-> "frame_without_columns"]
    ELSE [kind |-> "frame", values |-> records]

BookFailed(objects) == \E i \in BookAccounts : IsRaised(objects[i])

LgdFailed(x) == IsRaised(x) \/ IsRaised(x.lgd_schedule)

InitBook ==
    /\ bk_loans \in [BookAccounts -> BookLoans]
    /\ bk_shared \in SharedTables
    /\ bk_ead = [i \in BookAccounts |-> NoValue]
    /\ bk_lgd = [i \in BookAccounts |-> NoValue]
    /\ bk_phase = "ead" /\ bk_records = <<>> /\ bk_ecl = NoValue
    /\ StagingIdle /\ PipelineIdle /\ ConvertIdle /\ ProjectIdle /\ PrepIdle /\ LoanIdle

\* one worker step of line 278
BookCreateEad ==
    /\ bk_phase = "ead"
    /\ \E i \in BookAccounts :
          /\ bk_ead[i] = NoValue
          /\ With(ead_worker(bk_loans[i], bk_shared), LAMBDA w :
                /\ bk_ead' = [bk_ead EXCEPT ![i] = w.result]
                /\ bk_shared' = w.shared)
    /\ UNCHANGED <<bk_loans, bk_lgd, bk_phase, bk_records, bk_ecl>>
    /\ UNCHANGED <<stagingVars, pipelineVars, convertVars, projectVars, prepVars, loanVars>>

\* line 278 returns, or raises what a worker raised (handler of line 342)
BookEadJoin ==
    /\ bk_phase = "ead"
    /\ \A i \in BookAccounts : bk_ead[i] # NoValue
    /\ bk_phase' = IF BookFailed(bk_ead) THEN "failed" ELSE "lgd"
    /\ UNCHANGED <<bk_loans, bk_shared, bk_ead, bk_lgd, bk_records, bk_ecl>>
    /\ UNCHANGED <<stagingVars, pipelineVars, convertVars, projectVars, prepVars, loanVars>>

\* one worker step of line 288
BookCreateLgd ==
    /\ bk_phase = "lgd"
    /\ \E i \in BookAccounts :
          /\ bk_lgd[i] = NoValue
          /\ With(lgd_worker(bk_ead[i], bk_shared), LAMBDA w :
                /\ bk_lgd' = [bk_lgd EXCEPT ![i] = w.result]
                /\ bk_shared' = w.shared)
    /\ UNCHANGED <<bk_loans, bk_ead, bk_phase, bk_records, bk_ecl>>
    /\ UNCHANGED <<stagingVars, pipelineVars, convertVars, projectVars, prepVars, loanVars>>

\* lines 288-323: the schedules of every loan are saved, or nothing is when a
\* LossGivenDefault or a schedule raised (the rows of the project were deleted
\* at line 257)
BookSave ==
    /\ bk_phase = "lgd"
    /\ \A i \in BookAccounts : bk_lgd[i] # NoValue
    /\ IF \E i \in BookAccounts : LgdFailed(bk_lgd[i])
       THEN bk_phase' = "failed" /\ bk_records' = <<>>
       ELSE /\ bk_phase' = "saved"
            /\ bk_records' =
                 [i \in BookAccounts |->
                    [account_no |-> i,
                     stage      |-> staging_map(bk_loans[i].dpd, MAT_SIZE),
                     loan_type  |-> bk_loans[i].loan_type,
                     amortization_schedule |-> to_records(amortization(bk_ead[i]).EAD),
                     lgd_schedule |-> to_records(bk_lgd[i].lgd_schedule.LGD)]]
    /\ UNCHANGED <<bk_loans, bk_shared, bk_ead, bk_lgd, bk_ecl>>
    /\ UNCHANGED <<stagingVars, pipelineVars, convertVars, projectVars, prepVars, loanVars>>

\* ECL_Calc on the saved rows: line 333 of ecl_module.py raises KeyError on a
\* frame without columns, and nothing catches it
book_ecl(records, shared) ==
    IF \E i \in DOMAIN records :
          \/ from_records(records[i].amortization_schedule, "EAD").kind # "frame"
          \/ from_records(records[i].lgd_schedule, "LGD").kind # "frame"
    THEN Raised("KeyError")
    ELSE With([i \in DOMAIN records |->
                 single_loan_ecl(records[i].stage, records[i].loan_type,
                                 [EAD |-> from_records(records[i].amortization_schedule,
                                                       "EAD").values],
                                 [LGD |-> from_records(records[i].lgd_schedule, "LGD").values],
                                 shared.stage1_pds, shared.stage2_pds)], LAMBDA results :
           IF \E i \in DOMAIN results : IsRaised(results[i])
           THEN results[CHOOSE i \in DOMAIN results : IsRaised(results[i])]
           ELSE [kind |-> "ecl", results |-> results])

\* calculate_ECL, views.py 374-422
BookCalculateEcl ==
    /\ bk_phase = "saved"
    /\ bk_ecl' = book_ecl(bk_records, bk_shared)
    /\ bk_phase' = "ecl"
    /\ UNCHANGED <<bk_loans, bk_shared, bk_ead, bk_lgd, bk_records>>
    /\ UNCHANGED <<stagingVars, pipelineVars, convertVars, projectVars, prepVars, loanVars>>

NextBook == BookCreateEad \/ BookEadJoin \/ BookCreateLgd \/ BookSave \/ BookCalculateEcl

SpecBook == InitBook /\ [][NextBook]_vars

BookTypeOK ==
    /\ bk_phase \in {"ead", "lgd", "failed", "saved", "ecl"}
    /\ bk_phase \in {"ead", "lgd", "failed"} => bk_records = <<>> /\ bk_ecl = NoValue
    /\ bk_phase = "saved" => bk_ecl = NoValue

\* ---------------------------------------------------------------------------
\* C24
\* ---------------------------------------------------------------------------

\* the two views have run to their end
BookDone == bk_phase \in {"failed", "ecl"}

\* sum_of_ecl has a row for the account: the ECL frame holds entries of it
HasEclRecord(i) ==
    /\ bk_phase = "ecl" /\ bk_ecl.kind = "ecl"
    /\ Len(bk_ecl.results[i].ECL) >= 1

\* C24: at the end every loan of the book has its ECL record, and the record of
\* a stage_3 loan has exactly one entry, with PD = 1, whatever its balance and
\* maturity.
C24_OneRecordPerLoan ==
    BookDone =>
        \A i \in BookAccounts :
            /\ HasEclRecord(i)
            /\ staging_map(bk_loans[i].dpd, MAT_SIZE) = "stage_3" =>
                  /\ Len(bk_ecl.results[i].ECL) = 1
                  /\ bk_ecl.results[i].PD = <<Rat(1, 1)>>

\* the same for the books without a paid-off loan
C24_BooksWithoutPaidOffLoans ==
    (\A i \in BookAccounts : bk_loans[i].outstanding_balance > 0) => C24_OneRecordPerLoan

\* ---------------------------------------------------------------------------
\* C27
\* ---------------------------------------------------------------------------

\* the orders in which the loans of the book can be processed one after another
BookOrders ==
    {o \in [BookAccounts -> BookAccounts] : \A a, b \in BookAccounts : a # b => o[a] # o[b]}

\* the loans processed one at a time in the given order, from position k on,
\* every worker reading the tables as the worker before it left them
RECURSIVE SequentialMap(_, _, _, _)
SequentialMap(order, k, shared, out) ==
    IF k > BookSize THEN out
    ELSE With(ead_worker(bk_loans[order[k]], shared), LAMBDA e :
           IF IsRaised(e.result)
           THEN SequentialMap(order, k + 1, e.shared,
                              [out EXCEPT ![order[k]] = [ead |-> e.result, lgd |-> NoValue]])
           ELSE With(lgd_worker(e.result, e.shared), LAMBDA l :
                  SequentialMap(order, k + 1, l.shared,
                                [out EXCEPT ![order[k]] = [ead |-> e.result,
                                                           lgd |-> l.result]])))

SequentialResults(order) ==
    SequentialMap(order, 1, bk_shared, [i \in BookAccounts |-> NoValue])

\* what the workers have produced so far is what any sequential run produces
ParallelEqualsSequential ==
    bk_phase # None =>
        \A order \in BookOrders :
            With(SequentialResults(order), LAMBDA seq :
                \A i \in BookAccounts :
                    /\ bk_ead[i] # NoValue => bk_ead[i] = seq[i].ead
                    /\ bk_lgd[i] # NoValue => bk_lgd[i] = seq[i].lgd)

\* a step changes the objects of one loan at most and none of the shared tables
WorkerStepIsLocal ==
    /\ bk_shared' = bk_shared
    /\ bk_loans' = bk_loans
    /\ \A i, j \in BookAccounts :
          (i # j /\ (bk_ead'[i] # bk_ead[i] \/ bk_lgd'[i] # bk_lgd[i]))
              => (bk_ead'[j] = bk_ead[j] /\ bk_lgd'[j] = bk_lgd[j])

\* C27: in whatever order the per-loan steps of the two parallel maps run, no
\* step changes the shared cure, recovery or PD tables, a step writes the
\* objects of its own loan only, and the per-loan results are those of
\* processing the loans one after another in any order.
C27_ParallelMapSafe ==
    /\ [] ParallelEqualsSequential
    /\ [][WorkerStepIsLocal]_vars

\* the second loan is done before the first one, the two loans being different
C27_Witness ==
    /\ bk_phase = "lgd"
    /\ bk_loans[1] # bk_loans[2]
    /\ bk_lgd[1] = NoValue
    /\ bk_lgd[2] # NoValue /\ ~ IsRaised(bk_lgd[2])

====
